---- MODULE Spec2Model ----
\* A model of the apple-nvram library (v3 variable store, v1/v2 CHRP store,
\* writers) and of the asahi-nvram write path, at byte level.
EXTENDS Integers, Sequences, FiniteSets, TLC

\* ======================================================================
\* Byte strings.  A Vec<u8> / &[u8] is a run-length encoded sequence of
\* <<byte, end>> pairs: the run holds `byte` at every offset from the end
\* of the run before it (0 for the first) up to, not including, `end`.
\* In normal form no run is empty and neighbouring runs hold different
\* bytes, so two byte strings are equal iff their encodings are.  Offsets
\* are 0-based as in the source.
\* ======================================================================

Min(a, b) == IF a < b THEN a ELSE b

RECURSIVE BitAnd(_, _)
BitAnd(x, y) == IF x = 0 \/ y = 0 THEN 0
                ELSE (x % 2) * (y % 2) + 2 * BitAnd(x \div 2, y \div 2)

\* u8 & u8
And8(x, y) == IF x = y THEN x ELSE IF y = 255 THEN x ELSE IF x = 255 THEN y ELSE BitAnd(x, y)

\* the normal form of a sequence of runs with non-decreasing ends
Norm(r) ==
    LET n == Len(r)
        ne == SelectSeq([j \in 1..n |->
                            <<r[j][1], r[j][2], (IF j = 1 THEN 0 ELSE r[j - 1][2]) < r[j][2]>>],
                        LAMBDA t : t[3])
        m == Len(ne)
        mg == SelectSeq([j \in 1..m |->
                            <<ne[j][1], ne[j][2], j = m \/ ne[j + 1][1] # ne[j][1]>>],
                        LAMBDA t : t[3])
    IN [j \in 1..Len(mg) |-> <<mg[j][1], mg[j][2]>>]

\* n copies of byte b
Fill(b, n) == IF n <= 0 THEN <<>> ELSE << <<b, n>> >>

\* slice.len()
BLen(r) == IF r = <<>> THEN 0 ELSE r[Len(r)][2]

\* extend_from_slice: a followed by b
Cat(a, b) ==
    IF a = <<>> THEN b
    ELSE IF b = <<>> THEN a
    ELSE LET n == BLen(a)
             sh == [j \in 1..Len(b) |-> <<b[j][1], b[j][2] + n>>]
         IN IF a[Len(a)][1] = b[1][1] THEN SubSeq(a, 1, Len(a) - 1) \o sh ELSE a \o sh

Cat3(a, b, c) == Cat(Cat(a, b), c)

\* the number of runs of r that end at or before offset k, given that the
\* runs 1..lo do and the runs after hi do not
RECURSIVE RunsUpTo(_, _, _, _)
RunsUpTo(r, k, lo, hi) ==
    IF lo >= hi THEN lo
    ELSE LET mid == (lo + hi + 1) \div 2
         IN IF r[mid][2] <= k THEN RunsUpTo(r, k, mid, hi) ELSE RunsUpTo(r, k, lo, mid - 1)

\* &r[..k] for 0 < k < r.len(), c being the number of runs that end at or
\* before k
TakeAt(r, k, c) ==
    IF (IF c = 0 THEN 0 ELSE r[c][2]) < k
    THEN Append(SubSeq(r, 1, c), <<r[c + 1][1], k>>)
    ELSE SubSeq(r, 1, c)

\* &r[..k]
BTake(r, k) ==
    IF k <= 0 THEN <<>>
    ELSE IF k >= BLen(r) THEN r
    ELSE TakeAt(r, k, RunsUpTo(r, k, 0, Len(r)))

\* &r[k..] for 0 < k < r.len(), c as in TakeAt
DropAt(r, k, c) == [j \in 1..(Len(r) - c) |-> <<r[c + j][1], r[c + j][2] - k>>]

\* &r[k..]
BDrop(r, k) ==
    IF k <= 0 THEN r
    ELSE IF k >= BLen(r) THEN <<>>
    ELSE DropAt(r, k, RunsUpTo(r, k, 0, Len(r)))

\* &r[a..b]
BSlice(r, a, b) == BTake(BDrop(r, a), b - a)

\* r[i]
BAt(r, i) == r[RunsUpTo(r, i, 0, Len(r)) + 1][1]

\* a literal byte list as a byte string
Bytes(s) == Norm([i \in 1..Len(s) |-> <<s[i], i>>])

\* a (short) byte string as a plain list of bytes
Plain(r) == [i \in 1..BLen(r) |-> BAt(r, i - 1)]

\* every byte of r is in the set S
AllIn(r, S) == \A i \in 1..Len(r) : r[i][1] \in S

\* a & b, byte by byte (equal lengths)
RECURSIVE BAnd(_, _)
BAnd(a, b) ==
    IF Len(a) = 0 THEN <<>>
    ELSE IF Len(a) = 1
    THEN Norm([j \in 1..Len(b) |-> <<And8(a[1][1], b[j][1]), b[j][2]>>])
    ELSE LET h == Len(a) \div 2
             pos == a[h][2]
         IN Cat(BAnd(SubSeq(a, 1, h), BTake(b, pos)), BAnd(BDrop(a, pos), BDrop(b, pos)))

\* ======================================================================
\* u32 values are kept as their four little-endian bytes <<b0, b1, b2, b3>>
\* (to_le_bytes / from_le_bytes), so that every u32 is representable and
\* wrap-around is explicit.
\* ======================================================================

U32FromInt(n) == <<n % 256, (n \div 256) % 256, (n \div 65536) % 256, (n \div 16777216) % 256>>

\* the value fits the model's integers (is below 2^31)
U32Fits(u) == u[4] < 128

U32Val(u) == u[1] + 256 * u[2] + 65536 * u[3] + 16777216 * u[4]

\* a > b on u32
U32Gt(a, b) ==
    IF a[4] # b[4] THEN a[4] > b[4]
    ELSE IF a[3] # b[3] THEN a[3] > b[3]
    ELSE IF a[2] # b[2] THEN a[2] > b[2]
    ELSE a[1] > b[1]

\* a + b on u32: [v |-> the wrapped sum, ovf |-> whether it overflowed]
U32Add(a, b) ==
    LET s1 == a[1] + b[1]
        s2 == a[2] + b[2] + s1 \div 256
        s3 == a[3] + b[3] + s2 \div 256
        s4 == a[4] + b[4] + s3 \div 256
    IN [v |-> <<s1 % 256, s2 % 256, s3 % 256, s4 % 256>>, ovf |-> s4 >= 256]

\* (n as usize) > u for a small n and a u32 u
IntGtU32(n, u) == U32Fits(u) /\ n > U32Val(u)

\* (n as usize) < u
IntLtU32(n, u) == ~U32Fits(u) \/ n < U32Val(u)

\* ======================================================================
\* Checksums of the external crates.
\* ======================================================================

AdlerMod == 65521

\* x * y mod AdlerMod without leaving the model's integers (x < AdlerMod)
MulMod(x, y) ==
    LET yy == y % AdlerMod
    IN (((x * (yy \div 256)) % AdlerMod) * 256 + x * (yy % 256)) % AdlerMod

\* n * (n + 1) / 2 mod AdlerMod
Tri(n) == IF n % 2 = 0 THEN MulMod((n \div 2) % AdlerMod, n + 1)
          ELSE MulMod(n % AdlerMod, (n + 1) \div 2)

\* sum modulo AdlerMod of f[lo..hi]
RECURSIVE SumMod(_, _, _)
SumMod(f, lo, hi) ==
    IF lo > hi THEN 0
    ELSE IF lo = hi THEN f[lo] % AdlerMod
    ELSE LET mid == (lo + hi) \div 2
         IN (SumMod(f, lo, mid) + SumMod(f, mid + 1, hi)) % AdlerMod

\* Adler-32 state <<a, b>> after the bytes of r, from the state <<a0, b0>>:
\* a grows by every byte; b grows by a after every byte, so the byte at
\* offset p of L counts L - p times in b
AdlerRuns(r, a0, b0) ==
    LET L == BLen(r)
        st(j) == IF j = 1 THEN 0 ELSE r[j - 1][2]
        n(j) == r[j][2] - st(j)
        sa == [j \in 1..Len(r) |-> MulMod(r[j][1], n(j))]
        w(j) == (MulMod(n(j) % AdlerMod, L - st(j)) + AdlerMod - Tri(n(j) - 1)) % AdlerMod
        sb == [j \in 1..Len(r) |-> MulMod(r[j][1], w(j))]
    IN <<(a0 + SumMod(sa, 1, Len(r))) % AdlerMod,
         (b0 + MulMod(a0, L) + SumMod(sb, 1, Len(r))) % AdlerMod>>

\* adler32::adler32(bytes): b * 65536 + a, as a u32
Adler32(r) ==
    LET s == AdlerRuns(r, 1, 0)
    IN <<s[1] % 256, s[1] \div 256, s[2] % 256, s[2] \div 256>>

\* crc32fast::hash(bytes).  The code only stores this word and compares it
\* for equality; the model computes a position-sensitive 32-bit checksum of
\* the same bytes in its place.
Crc32(r) ==
    LET s == AdlerRuns(r, 7, 3)
    IN <<s[2] % 256, s[1] % 256, s[2] \div 256, s[1] \div 256>>

\* ======================================================================
\* v3 variable store: constants (apple-nvram/src/v3.rs)
\* ======================================================================

VARIABLE_STORE_SIGNATURE == Bytes(<<51, 86, 86, 78>>)
VARIABLE_STORE_VERSION == 1
VARIABLE_DATA == <<170, 85>>
PARTITION_SIZE == 65536
STORE_HEADER_SIZE == 24
VAR_HEADER_SIZE == 36
VAR_ADDED == 127
VAR_IN_DELETED_TRANSITION == 254
VAR_DELETED == 253
MAX_PARTITIONS == 16

APPLE_COMMON_VARIABLE_GUID ==
    Bytes(<<124, 67, 97, 16, 171, 42, 75, 187, 168, 128, 254, 65, 153, 92, 159, 130>>)
APPLE_SYSTEM_VARIABLE_GUID ==
    Bytes(<<64, 160, 221, 210, 119, 248, 67, 146, 180, 163, 30, 115, 4, 32, 101, 22>>)

\* ----------------------------------------------------------------------
\* In-memory values.
\*   StoreHeader  [size, generation, state, flags, version, system_size,
\*                 common_size]      (name is the signature once parsed)
\*   VarHeader    [state, attrs, name_size, data_size, guid, crc]
\*   Variable     [header, key, value]
\*   Partition    [header, values]   values: the log, a sequence of
\*                 Variables (the pair's first component is the
\*                 Variable's own key)
\*   Slot         [tag |-> "Valid", p |-> Partition], [tag |-> "Invalid"],
\*                 [tag |-> "Empty"]
\* ----------------------------------------------------------------------

SlotValid(p) == [tag |-> "Valid", p |-> p]
SlotInvalid == [tag |-> "Invalid"]
SlotEmpty == [tag |-> "Empty"]

\* Variable::size
VarSize(v) == VAR_HEADER_SIZE + U32Val(U32Add(v.header.name_size, v.header.data_size).v)

\* Variable::typ
VarTyp(v) == IF v.header.guid = APPLE_SYSTEM_VARIABLE_GUID THEN "System" ELSE "Common"

\* VarHeader::serialize
VarHeaderSerialize(h) ==
    Cat(Bytes(VARIABLE_DATA \o <<h.state, 0>> \o h.attrs \o h.name_size \o h.data_size),
        Cat(h.guid, Bytes(h.crc)))

\* Variable::serialize
VariableSerialize(v) ==
    Cat(Cat3(VarHeaderSerialize(v.header), v.key, Fill(0, 1)), v.value)

\* StoreHeader::serialize
StoreHeaderSerialize(h) ==
    Cat(VARIABLE_STORE_SIGNATURE,
        Bytes(h.size \o h.generation \o <<h.state, h.flags, h.version, 0>>
              \o h.system_size \o h.common_size))

\* StoreHeader::parse, b being the 24 bytes it is given
StoreHeaderParse(b) ==
    IF SubSeq(b, 1, 4) # Plain(VARIABLE_STORE_SIGNATURE) THEN [tag |-> "ParseError"]
    ELSE IF b[15] # VARIABLE_STORE_VERSION THEN [tag |-> "ParseError"]
    ELSE [tag |-> "Ok",
          h |-> [size |-> SubSeq(b, 5, 8),
                 generation |-> SubSeq(b, 9, 12),
                 state |-> b[13],
                 flags |-> b[14],
                 version |-> b[15],
                 system_size |-> SubSeq(b, 17, 20),
                 common_size |-> SubSeq(b, 21, 24)]]

\* VarHeader::parse on a slice of `len` bytes whose first (at most)
\* VAR_HEADER_SIZE bytes are b; chk: the build checks integer overflow
\* (debug) or wraps (release)
VarHeaderParse(b, len, chk) ==
    IF len < 2 THEN [tag |-> "Panic"]
    ELSE IF SubSeq(b, 1, 2) # VARIABLE_DATA THEN [tag |-> "ParseError"]
    ELSE IF len < VAR_HEADER_SIZE THEN [tag |-> "Panic"]
    ELSE LET sum == U32Add(SubSeq(b, 9, 12), SubSeq(b, 13, 16))
         IN IF sum.ovf /\ chk THEN [tag |-> "Panic"]
            ELSE IF IntLtU32(len - VAR_HEADER_SIZE, sum.v) THEN [tag |-> "ParseError"]
            ELSE [tag |-> "Ok",
                  h |-> [state |-> b[3],
                         attrs |-> SubSeq(b, 5, 8),
                         name_size |-> SubSeq(b, 9, 12),
                         data_size |-> SubSeq(b, 13, 16),
                         guid |-> Bytes(SubSeq(b, 17, 32)),
                         crc |-> SubSeq(b, 33, 36)]]

\* the record loop of Partition::parse, from `offset` with `values` read
\* so far: [tag |-> "Ok", values |-> ...], "ParseError" or "Panic"
RECURSIVE ParseValues(_, _, _, _, _)

\* the loop's body once header, key and value of the record are known
ParseValue(nvr, size, offset, values, chk, v) ==
    IF Crc32(v.value) # v.header.crc THEN [tag |-> "ParseError"]
    ELSE ParseValues(nvr, size, offset + VarSize(v), Append(values, v), chk)

\* the loop's body after VarHeader::parse returned vh
ParseRecord(nvr, size, offset, values, chk, vh) ==
    IF vh.tag # "Ok" THEN [tag |-> vh.tag]
    ELSE IF ~U32Fits(vh.h.name_size) \/ ~U32Fits(vh.h.data_size) \/ U32Val(vh.h.name_size) = 0
    THEN [tag |-> "Panic"]
    ELSE LET k_begin == offset + VAR_HEADER_SIZE
             k_end == k_begin + U32Val(vh.h.name_size)
             v_end == k_end + U32Val(vh.h.data_size)
         IN IF k_end - 1 > BLen(nvr) \/ v_end > BLen(nvr) THEN [tag |-> "Panic"]
            ELSE ParseValue(nvr, size, offset, values, chk,
                            [header |-> vh.h,
                             key |-> BSlice(nvr, k_begin, k_end - 1),
                             value |-> BSlice(nvr, k_end, v_end)])

\* the loop's body, win being the bytes the emptiness test looks at
ParseWindow(nvr, size, offset, values, chk, win) ==
    IF AllIn(win, {0, 255})
    THEN IF BLen(win) < VAR_HEADER_SIZE THEN [tag |-> "Panic"]
         ELSE [tag |-> "Ok", values |-> values]
    ELSE ParseRecord(nvr, size, offset, values, chk,
                     VarHeaderParse(Plain(win), BLen(nvr) - offset, chk))

ParseValues(nvr, size, offset, values, chk) ==
    IF ~IntLtU32(offset + VAR_HEADER_SIZE, size) THEN [tag |-> "Ok", values |-> values]
    ELSE ParseWindow(nvr, size, offset, values, chk,
                     BSlice(nvr, offset, offset + VAR_HEADER_SIZE))

\* the result of Partition::parse, given the parsed header and the result
\* of the record loop
PartitionOf(h, r) ==
    IF r.tag = "Ok" THEN [tag |-> "Ok", p |-> [header |-> h, values |-> r.values]]
    ELSE [tag |-> r.tag]

\* Partition::parse after StoreHeader::parse returned sh
PartitionWith(nvr, chk, sh) ==
    IF sh.tag = "Ok"
    THEN PartitionOf(sh.h, ParseValues(nvr, sh.h.size, STORE_HEADER_SIZE, <<>>, chk))
    ELSE IF AllIn(nvr, {255}) THEN [tag |-> "Empty"]
    ELSE [tag |-> "ParseError"]

\* Partition::parse on one 0x10000-byte window:
\* [tag |-> "Ok", p |-> Partition], "Empty", "ParseError" or "Panic"
PartitionParse(nvr, chk) ==
    PartitionWith(nvr, chk, StoreHeaderParse(Plain(BTake(nvr, STORE_HEADER_SIZE))))

\* the bank loop of Nvram::parse from bank i:
\* st = [partitions, active, max_gen, valid]
RECURSIVE ParseBanks(_, _, _, _, _)

\* the loop's body after Partition::parse returned r
ParseBank(nvr, count, i, st, chk, r) ==
    IF r.tag = "Panic" THEN [tag |-> "Panic"]
    ELSE IF r.tag = "Ok"
    THEN IF U32Gt(r.p.header.generation, st.max_gen)
         THEN ParseBanks(nvr, count, i + 1,
                         [partitions |-> Append(st.partitions, SlotValid(r.p)),
                          active |-> i,
                          max_gen |-> r.p.header.generation,
                          valid |-> st.valid + 1], chk)
         ELSE ParseBanks(nvr, count, i + 1,
                         [st EXCEPT !.partitions = Append(@, SlotValid(r.p)),
                                    !.valid = @ + 1], chk)
    ELSE ParseBanks(nvr, count, i + 1,
                    [st EXCEPT !.partitions =
                         Append(@, IF r.tag = "Empty" THEN SlotEmpty ELSE SlotInvalid)], chk)

ParseBanks(nvr, count, i, st, chk) ==
    IF i >= count THEN [tag |-> "Ok", st |-> st]
    ELSE IF i >= MAX_PARTITIONS THEN [tag |-> "Panic"]
    ELSE ParseBank(nvr, count, i, st, chk,
                   PartitionParse(BSlice(nvr, i * PARTITION_SIZE, (i + 1) * PARTITION_SIZE),
                                  chk))

\* the result of Nvram::parse after the bank loop returned r
NvramOf(partition_count, r) ==
    IF r.tag = "Panic" THEN [tag |-> "Panic"]
    ELSE IF r.st.valid = 0 THEN [tag |-> "ParseError"]
    ELSE [tag |-> "Ok",
          nv |-> [partitions |-> r.st.partitions,
                  partition_count |-> partition_count,
                  active |-> r.st.active]]

\* v3 Nvram::parse: [tag |-> "Ok", nv |-> [partitions, partition_count, active]],
\* "ParseError" or "Panic".  partitions holds the first partition_count
\* entries of the 16-slot array (index i of the source is i + 1 here).
NvramParse(nvr, chk) ==
    NvramOf(BLen(nvr) \div PARTITION_SIZE,
            ParseBanks(nvr, BLen(nvr) \div PARTITION_SIZE, 0,
                       [partitions |-> <<>>, active |-> 0,
                        max_gen |-> U32FromInt(0), valid |-> 0], chk))

\* ----------------------------------------------------------------------
\* v3 Partition: the log in memory
\* ----------------------------------------------------------------------

\* a sum that counts the records of the guid in every state
RECURSIVE UsedBy_AllStates(_, _)
UsedBy_AllStates(values, guid) ==
    IF values = <<>> THEN 0
    ELSE (IF values[1].header.guid = guid THEN VarSize(values[1]) ELSE 0)
         + UsedBy_AllStates(Tail(values), guid)

\* sum of Variable::size over the records of `values` with state VAR_ADDED
\* and the given guid
RECURSIVE UsedBy(_, _)
UsedBy(values, guid) ==
    IF values = <<>> THEN 0
    ELSE (IF values[1].header.state = VAR_ADDED /\ values[1].header.guid = guid
          THEN VarSize(values[1]) ELSE 0) + UsedBy(Tail(values), guid)

RECURSIVE SizeSum(_)
SizeSum(values) ==
    IF values = <<>> THEN 0 ELSE VarSize(values[1]) + SizeSum(Tail(values))

\* Partition::total_used
TotalUsed(p) == STORE_HEADER_SIZE + SizeSum(p.values)

\* Partition::system_used
SystemUsed(p) == UsedBy(p.values, APPLE_SYSTEM_VARIABLE_GUID)

\* Partition::common_used
CommonUsed(p) == UsedBy(p.values, APPLE_COMMON_VARIABLE_GUID)

\* the records Partition::entries_added yields: positions in the log
EntriesAdded(p, key, typ) ==
    {i \in 1..Len(p.values) :
        /\ p.values[i].key = key
        /\ VarTyp(p.values[i]) = typ
        /\ p.values[i].header.state = VAR_ADDED}

\* an invalidation that clears the VAR_DELETED bit only
Invalidated_DeletedOnly(state) == And8(state, VAR_DELETED)

\* an invalidation that leaves the state as it is
Invalidated_Kept(state) == state

\* the state a record gets when it is invalidated
Invalidated(state) == And8(And8(state, VAR_DELETED), VAR_IN_DELETED_TRANSITION)

\* remove_variable that invalidates the live records of the key of both kinds
RemoveVariable_AnyKind(p, key, typ) ==
    [p EXCEPT !.values =
        [i \in 1..Len(p.values) |->
            IF p.values[i].key = key /\ p.values[i].header.state = VAR_ADDED
            THEN [p.values[i] EXCEPT !.header.state = Invalidated(@)]
            ELSE p.values[i]]]

\* Partition::remove_variable
RemoveVariable(p, key, typ) ==
    [p EXCEPT !.values =
        [i \in 1..Len(p.values) |->
            IF i \in EntriesAdded(p, key, typ)
            THEN [p.values[i] EXCEPT !.header.state = Invalidated(@)]
            ELSE p.values[i]]]

\* insert_variable that does not invalidate the previous instances
InsertVariable_NoInvalidate(p, key, value, typ) ==
    [p EXCEPT !.values =
        Append(@, [header |-> [state |-> VAR_ADDED,
                               attrs |-> U32FromInt(0),
                               name_size |-> U32FromInt(BLen(key) + 1),
                               data_size |-> U32FromInt(BLen(value)),
                               guid |-> IF typ = "Common" THEN APPLE_COMMON_VARIABLE_GUID
                                        ELSE APPLE_SYSTEM_VARIABLE_GUID,
                               crc |-> Crc32(value)],
                   key |-> key,
                   value |-> value])]

\* Partition::insert_variable
InsertVariable(p, key, value, typ) ==
    LET q == RemoveVariable(p, key, typ)
        guid == IF typ = "Common" THEN APPLE_COMMON_VARIABLE_GUID ELSE APPLE_SYSTEM_VARIABLE_GUID
        var == [header |-> [state |-> VAR_ADDED,
                            attrs |-> U32FromInt(0),
                            name_size |-> U32FromInt(BLen(key) + 1),
                            data_size |-> U32FromInt(BLen(value)),
                            guid |-> guid,
                            crc |-> Crc32(value)],
                key |-> key,
                value |-> value]
    IN [q EXCEPT !.values = Append(@, var)]

\* get_variable that does not compare the kind
RECURSIVE FindFrom_AnyKind(_, _, _, _)
FindFrom_AnyKind(values, i, key, typ) ==
    IF i > Len(values) THEN 0
    ELSE IF values[i].key = key /\ values[i].header.state = VAR_ADDED THEN i
    ELSE FindFrom_AnyKind(values, i + 1, key, typ)

\* the position Partition::get_variable finds (0: None)
RECURSIVE FindFrom(_, _, _, _)
FindFrom(values, i, key, typ) ==
    IF i > Len(values) THEN 0
    ELSE IF /\ values[i].key = key
            /\ VarTyp(values[i]) = typ
            /\ values[i].header.state = VAR_ADDED
         THEN i
    ELSE FindFrom(values, i + 1, key, typ)

\* Partition::get_variable: [some |-> FALSE] or [some |-> TRUE, var |-> Variable]
GetAt(p, i) == IF i = 0 THEN [some |-> FALSE] ELSE [some |-> TRUE, var |-> p.values[i]]

GetVariable(p, key, typ) == GetAt(p, FindFrom(p.values, 1, key, typ))

\* v3 Variable::value
VariableValue(v) == v.value

\* the sequence in reverse order
RECURSIVE Reversed(_)
Reversed(values) ==
    IF values = <<>> THEN <<>> ELSE Append(Reversed(Tail(values)), values[1])

\* clone_active that collects the live records last to first
CloneActive_Reversed(p, chk) ==
    LET g == U32Add(p.header.generation, U32FromInt(1))
    IN IF g.ovf /\ chk THEN [tag |-> "Panic"]
       ELSE [tag |-> "Ok",
             p |-> [header |-> [p.header EXCEPT !.generation = g.v],
                    values |-> Reversed(SelectSeq(p.values, LAMBDA v : v.header.state = VAR_ADDED))]]

\* Partition::clone_active; `chk` as in VarHeaderParse: generation += 1
\* panics in a build that checks overflow and wraps otherwise
CloneActive(p, chk) ==
    LET g == U32Add(p.header.generation, U32FromInt(1))
    IN IF g.ovf /\ chk THEN [tag |-> "Panic"]
       ELSE [tag |-> "Ok",
             p |-> [header |-> [p.header EXCEPT !.generation = g.v],
                    values |-> SelectSeq(p.values, LAMBDA v : v.header.state = VAR_ADDED)]]

\* the loop `for var in self.variables() { var.serialize(v) }`
RECURSIVE SerializeValues(_)
SerializeValues(values) ==
    IF values = <<>> THEN <<>>
    ELSE Cat(SerializeValues(SubSeq(values, 1, Len(values) - 1)),
             VariableSerialize(values[Len(values)]))

\* Partition::serialize appended to a vector that already holds `start`
\* bytes, `body` being the header and the records it pushes:
\* [tag |-> "Ok", bytes |-> the bytes appended], or "Panic" when the
\* debug assertion v.len() == total_used() fails (chk) or the padding count
\* header.size - my_size falls below zero (a panic with overflow checks, a
\* wrapped count and an endless fill without them: "Abort")
SerializeWith(p, start, chk, body) ==
    IF chk /\ start + BLen(body) # TotalUsed(p) THEN [tag |-> "Panic"]
    ELSE IF IntGtU32(BLen(body), p.header.size) THEN [tag |-> IF chk THEN "Panic" ELSE "Abort"]
    ELSE IF ~U32Fits(p.header.size) THEN [tag |-> "Abort"]
    ELSE [tag |-> "Ok", bytes |-> Cat(body, Fill(255, U32Val(p.header.size) - BLen(body)))]

PartitionSerialize(p, start, chk) ==
    SerializeWith(p, start, chk, Cat(StoreHeaderSerialize(p.header), SerializeValues(p.values)))

\* Nvram::active_part: the Slot::unwrap of partitions[active]
ActiveSlot(nv) == nv.partitions[nv.active + 1]

\* the loop of v3 Nvram::serialize from slot i (1-based), v being the
\* bytes pushed so far: only the Valid slots are serialized
RECURSIVE SerializeSlots(_, _, _, _)
SerializeSlot(nv, chk, i, v, d) ==
    IF d.tag # "Ok" THEN [tag |-> d.tag]
    ELSE SerializeSlots(nv, chk, i + 1, Cat(v, d.bytes))

SerializeSlots(nv, chk, i, v) ==
    IF i > nv.partition_count THEN [tag |-> "Ok", bytes |-> v]
    ELSE IF nv.partitions[i].tag # "Valid" THEN SerializeSlots(nv, chk, i + 1, v)
    ELSE SerializeSlot(nv, chk, i, v, PartitionSerialize(nv.partitions[i].p, BLen(v), chk))

\* v3 Nvram::serialize
NvramSerialize(nv, chk) == SerializeSlots(nv, chk, 1, <<>>)

\* the end of v3 Nvram::apply: the active partition was serialized with
\* the result d, and write_all is called with the bytes at `offset`
ApplyWrite(nv, erase, offset, d) ==
    IF d.tag # "Ok" THEN [res |-> d.tag, nv |-> nv, erase |-> erase]
    ELSE [res |-> "Write", nv |-> nv, erase |-> erase, offset |-> offset, data |-> d.bytes]

\* the rotation of v3 Nvram::apply, c being the result of clone_active
ApplyRotate(nv, chk, new_active, erase, c) ==
    IF c.tag # "Ok" THEN [res |-> "Panic", nv |-> nv, erase |-> erase]
    ELSE IF TotalUsed(c.p) > PARTITION_SIZE
    THEN [res |-> "SectionTooBig",
          nv |-> [nv EXCEPT !.partitions[new_active + 1] = SlotValid(c.p),
                            !.active = new_active],
          erase |-> erase]
    ELSE ApplyWrite([nv EXCEPT !.partitions[new_active + 1] = SlotValid(c.p),
                               !.active = new_active],
                    erase, new_active * PARTITION_SIZE, PartitionSerialize(c.p, 0, chk))

\* apply that erases the bank it writes in place
ApplyOn_EraseInPlace(nv, chk, ap) ==
    IF IntGtU32(SystemUsed(ap), ap.header.system_size)
    THEN [res |-> "SectionTooBig", nv |-> nv, erase |-> <<>>]
    ELSE IF IntGtU32(CommonUsed(ap), ap.header.common_size)
    THEN [res |-> "SectionTooBig", nv |-> nv, erase |-> <<>>]
    ELSE IF TotalUsed(ap) <= PARTITION_SIZE
    THEN ApplyWrite(nv, << <<nv.active * PARTITION_SIZE, PARTITION_SIZE>> >>,
                    nv.active * PARTITION_SIZE, PartitionSerialize(ap, 0, chk))
    ELSE ApplyRotate(nv, chk, (nv.active + 1) % nv.partition_count,
                     IF nv.partitions[((nv.active + 1) % nv.partition_count) + 1].tag # "Empty"
                     THEN << <<((nv.active + 1) % nv.partition_count) * PARTITION_SIZE,
                               PARTITION_SIZE>> >>
                     ELSE <<>>,
                     CloneActive(ap, chk))

\* apply that erases the destination of a rotation without looking at its slot
ApplyOn_AlwaysErase(nv, chk, ap) ==
    IF IntGtU32(SystemUsed(ap), ap.header.system_size)
    THEN [res |-> "SectionTooBig", nv |-> nv, erase |-> <<>>]
    ELSE IF IntGtU32(CommonUsed(ap), ap.header.common_size)
    THEN [res |-> "SectionTooBig", nv |-> nv, erase |-> <<>>]
    ELSE IF TotalUsed(ap) <= PARTITION_SIZE
    THEN ApplyWrite(nv, <<>>, nv.active * PARTITION_SIZE, PartitionSerialize(ap, 0, chk))
    ELSE ApplyRotate(nv, chk, (nv.active + 1) % nv.partition_count,
                     << <<((nv.active + 1) % nv.partition_count) * PARTITION_SIZE,
                          PARTITION_SIZE>> >>,
                     CloneActive(ap, chk))

\* apply that erases the bank it rotates away from
ApplyOn_EraseSource(nv, chk, ap) ==
    IF IntGtU32(SystemUsed(ap), ap.header.system_size)
    THEN [res |-> "SectionTooBig", nv |-> nv, erase |-> <<>>]
    ELSE IF IntGtU32(CommonUsed(ap), ap.header.common_size)
    THEN [res |-> "SectionTooBig", nv |-> nv, erase |-> <<>>]
    ELSE IF TotalUsed(ap) <= PARTITION_SIZE
    THEN ApplyWrite(nv, <<>>, nv.active * PARTITION_SIZE, PartitionSerialize(ap, 0, chk))
    ELSE ApplyRotate(nv, chk, (nv.active + 1) % nv.partition_count,
                     IF nv.partitions[((nv.active + 1) % nv.partition_count) + 1].tag # "Empty"
                     THEN << <<nv.active * PARTITION_SIZE, PARTITION_SIZE>> >>
                     ELSE <<>>,
                     CloneActive(ap, chk))

\* v3 Nvram::apply up to its call of write_all, ap being the active partition.
\*   res    "SectionTooBig", "Panic", "Abort", or "Write" (write_all is called)
\*   nv     the Nvram when apply returns or calls write_all
\*   erase  the erase_if_needed calls issued, in order: <<offset, size>>
\*   offset, data   the arguments of write_all
ApplyOn(nv, chk, ap) ==
    IF IntGtU32(SystemUsed(ap), ap.header.system_size)
    THEN [res |-> "SectionTooBig", nv |-> nv, erase |-> <<>>]
    ELSE IF IntGtU32(CommonUsed(ap), ap.header.common_size)
    THEN [res |-> "SectionTooBig", nv |-> nv, erase |-> <<>>]
    ELSE IF TotalUsed(ap) <= PARTITION_SIZE
    THEN ApplyWrite(nv, <<>>, nv.active * PARTITION_SIZE, PartitionSerialize(ap, 0, chk))
    ELSE ApplyRotate(nv, chk, (nv.active + 1) % nv.partition_count,
                     IF nv.partitions[((nv.active + 1) % nv.partition_count) + 1].tag # "Empty"
                     THEN << <<((nv.active + 1) % nv.partition_count) * PARTITION_SIZE,
                               PARTITION_SIZE>> >>
                     ELSE <<>>,
                     CloneActive(ap, chk))

ApplyPlan(nv, chk) ==
    IF ActiveSlot(nv).tag # "Valid" THEN [res |-> "Panic", nv |-> nv, erase |-> <<>>]
    ELSE ApplyOn(nv, chk, ActiveSlot(nv).p)

\* ----------------------------------------------------------------------
\* Writers (NvramWriter): TestNvram of v3.rs ("test") and MtdWriter on a
\* flash device ("mtd")
\* ----------------------------------------------------------------------

\* the bytes [off, off + size) of the medium set to 0xFF (TestNvram's
\* erase_if_needed, the MEMERASE ioctl of erase_if_needed_at)
EraseRegion(m, off, size) ==
    IF off >= BLen(m) THEN m
    ELSE Cat3(BTake(m, off), Fill(255, Min(size, BLen(m) - off)), BDrop(m, off + size))

\* NvramWriter::erase_if_needed of the trait: a no-op unless the writer
\* overrides it (MtdWriter does not)
DefaultEraseIfNeeded(m, off, size) == m

\* w.erase_if_needed(offset, size)
WriterErase(kind, m, off, size) ==
    IF kind = "test" THEN EraseRegion(m, off, size) ELSE DefaultEraseIfNeeded(m, off, size)

\* what write_all does before it stores the first byte: MtdWriter erases
\* the range it is about to write
WriterBegin(kind, m, off, len) ==
    IF kind = "mtd" THEN EraseRegion(m, off, len) ELSE m

\* the writer stores `bytes` at `off`: TestNvram clears bits (*d &= s),
\* the device file stores the bytes; what lies past the end is not stored
WriterStore(kind, m, off, bytes) ==
    IF off >= BLen(m) \/ bytes = <<>> THEN m
    ELSE LET n == Min(BLen(bytes), BLen(m) - off)
             new == IF kind = "test" THEN BAnd(BSlice(m, off, off + n), BTake(bytes, n))
                    ELSE BTake(bytes, n)
         IN Cat3(BTake(m, off), new, BDrop(m, off + n))

\* the prefix lengths at which a write of the serialized partition p may
\* stand when it is interrupted: inside and after the store header, after
\* the state byte of each record, and after the header and at the end of
\* the last record
WriteCuts(p) ==
    LET n == Len(p.values)
        start(j) == STORE_HEADER_SIZE + SizeSum(SubSeq(p.values, 1, j - 1))
    IN {4, STORE_HEADER_SIZE}
       \cup {start(j) + 3 : j \in 1..n}
       \cup (IF n = 0 THEN {} ELSE {start(n) + VAR_HEADER_SIZE, start(n + 1)})

\* ======================================================================
\* The v3 program: a process parses the device, mutates the active bank
\* through active_part_mut, and calls apply; write_all stores the buffer
\* piece by piece, and the process may lose power or exit and be started
\* again on what the device then holds.
\* ======================================================================

\* bounds of the model: mutations and apply calls in a behaviour, and the
\* apply calls in a behaviour with faults
MaxMuts == 2
MaxApplies == 2
MaxFaultApplies == 1

\* store_header() of the tests, with the given generation (a u32)
TestStoreHeader(generation) ==
    [size |-> U32FromInt(65536), generation |-> generation,
     state |-> 254, flags |-> 90, version |-> 1,
     system_size |-> U32FromInt(16384), common_size |-> U32FromInt(49152)]

KeyA == Bytes(<<97>>)
KeyB == Bytes(<<98>>)
Val1 == Bytes(<<49>>)
Val2 == Bytes(<<50, 50>>)
\* a value that fills the common quota of TestStoreHeader exactly (with a
\* one-byte key) and exceeds the system quota
BigCom == Fill(46, 49152 - VAR_HEADER_SIZE - 2)

\* a value that fills the system quota of TestStoreHeader exactly (with a
\* one-byte key)
BigSys == Fill(46, 16384 - VAR_HEADER_SIZE - 2)

Keys == {KeyA}
Types == {"Common", "System"}
Values == {Val1, BigCom}

\* a record as insert_variable builds it, in the given state
Rec(key, value, typ, state) ==
    LET p == InsertVariable([header |-> TestStoreHeader(U32FromInt(0)), values |-> <<>>],
                            key, value, typ)
    IN [p.values[1] EXCEPT !.header.state = state]

\* banks of the initial images
EmptyBank == Fill(255, PARTITION_SIZE)
GarbageBank == Cat(Bytes(<<103, 97, 114, 98, 97, 103, 101>>), Fill(255, PARTITION_SIZE - 7))
ValidBank(generation, values) ==
    PartitionSerialize([header |-> TestStoreHeader(generation), values |-> values], 0, FALSE).bytes

\* generations of the initial images; the last is u32::MAX
Gen0 == U32FromInt(0)
Gen1 == U32FromInt(1)
Gen2 == U32FromInt(2)
GenMax == <<255, 255, 255, 255>>

\* the images a device may hold when the first process starts
\* (the last but one has a store header whose size field is twice the bank
\* size; the last holds a system record that fills the system quota)
InitImages ==
    { Cat(ValidBank(Gen1, <<>>), EmptyBank),
      Cat(ValidBank(Gen1, <<Rec(KeyA, Val1, "Common", VAR_ADDED)>>),
          ValidBank(Gen2, <<Rec(KeyA, Val1, "Common", 124),
                            Rec(KeyA, Val2, "Common", VAR_ADDED)>>)),
      ValidBank(Gen1, <<Rec(KeyA, Val1, "Common", VAR_ADDED)>>),
      Cat3(ValidBank(Gen2, <<Rec(KeyA, Val1, "System", VAR_ADDED),
                             Rec(KeyA, Val2, "System", VAR_ADDED),
                             Rec(KeyA, BigCom, "Common", VAR_ADDED)>>),
           GarbageBank, ValidBank(Gen1, <<>>)),
      Cat(EmptyBank, ValidBank(Gen0, <<>>)),
      Cat(ValidBank(GenMax, <<Rec(KeyA, BigCom, "Common", VAR_ADDED)>>), EmptyBank),
      Cat(ValidBank(Gen1, <<Rec(KeyB, BigCom, "Common", VAR_ADDED),
                            Rec(KeyA, Val1, "Common", VAR_ADDED)>>), GarbageBank),
      Cat(BTake(PartitionSerialize([header |-> [TestStoreHeader(Gen1) EXCEPT
                                                   !.size = U32FromInt(2 * PARTITION_SIZE)],
                                    values |-> <<>>], 0, FALSE).bytes, PARTITION_SIZE),
          ValidBank(Gen0, <<Rec(KeyA, Val1, "Common", VAR_ADDED)>>)),
      Cat(ValidBank(Gen2, <<Rec(KeyA, BigSys, "System", VAR_ADDED)>>), ValidBank(Gen1, <<>>)) }

VARIABLES
    medium,   \* the bytes of the device
    writer,   \* the NvramWriter in use: "test" (TestNvram) or "mtd" (MtdWriter)
    build,    \* "debug" (integer overflow panics), "release" (it wraps), or
              \* "any" while no operation has overflowed
    pc,       \* "boot", "ready", "write" (write_all called), "failed", "panic";
              \* "rewrite", "retried", "retryfailed": apply called again after
              \* an I/O error;
              \* "recover", "recovered": the first process after a power loss
    nv,       \* the Nvram of the running process
    pend,     \* the write_all that was called: [offset, data, cuts]
    calls,    \* the writer calls the last apply issued, in order
    pre,      \* the Nvram and the medium when the last apply was called, and
              \* the Nvram when it returned or called write_all
    last,     \* the last library call, its result, and the call before it
    muts,     \* number of insert_variable and remove_variable calls so far
    applies   \* number of apply calls so far

vars == <<medium, writer, build, pc, nv, pend, calls, pre, last, muts, applies>>

NoNv == [partition_count |-> 0]
NoPend == [offset |-> 0]

\* the overflow behaviours the build may still have (TRUE: checked)
Builds == IF build = "any" THEN {TRUE, FALSE} ELSE {build = "debug"}

\* the build after an operation that ran with overflow checks `chk`;
\* `differs`: the operation's outcome depends on the checks
FixBuild(chk, differs) ==
    IF build = "any" /\ differs THEN (IF chk THEN "debug" ELSE "release") ELSE build

Init ==
    /\ medium \in InitImages
    /\ writer \in {"test", "mtd"}
    /\ build = "any"
    /\ pc = "boot"
    /\ nv = NoNv
    /\ pend = NoPend
    /\ calls = <<>>
    /\ pre = [nv |-> NoNv, medium |-> <<>>, post |-> NoNv]
    /\ last = [op |-> "none"]
    /\ muts = 0
    /\ applies = 0

\* the call a value of `last` records, without what it stored before it
Call(l) ==
    IF l.op = "insert" /\ l.res = "Ok"
    THEN [op |-> "insert", key |-> l.key, value |-> l.value, typ |-> l.typ]
    ELSE IF l.op = "remove" /\ l.res = "Ok"
    THEN [op |-> "remove", key |-> l.key, typ |-> l.typ]
    ELSE [op |-> l.op]

\* a process starts: Nvram::parse on the bytes read from the device
Parse ==
    /\ pc \in {"boot", "recover"}
    /\ \E rs \in {[c \in BOOLEAN |-> NvramParse(medium, c)]} : \E chk \in Builds :
        /\ pc' = IF rs[chk].tag = "Panic" THEN "panic"
                 ELSE IF rs[chk].tag # "Ok" THEN "failed"
                 ELSE IF pc = "recover" THEN "recovered" ELSE "ready"
        /\ nv' = IF rs[chk].tag = "Ok" THEN rs[chk].nv ELSE NoNv
        /\ last' = [op |-> "parse", res |-> rs[chk].tag]
        /\ build' = FixBuild(chk, rs[TRUE] # rs[FALSE])
    /\ UNCHANGED <<medium, writer, pend, calls, pre, muts, applies>>

\* nv.active_part_mut().insert_variable(key, value, typ)
Insert(key, value, typ) ==
    /\ pc = "ready"
    /\ muts < MaxMuts
    /\ applies < MaxApplies
    /\ IF ActiveSlot(nv).tag # "Valid"
       THEN /\ pc' = "panic"
            /\ last' = [op |-> "insert", res |-> "Panic"]
            /\ nv' = nv
       ELSE /\ pc' = pc
            /\ nv' = [nv EXCEPT !.partitions[nv.active + 1].p = InsertVariable(@, key, value, typ)]
            /\ last' = [op |-> "insert", res |-> "Ok", key |-> key, value |-> value,
                        typ |-> typ, before |-> ActiveSlot(nv).p, prev |-> Call(last)]
    /\ muts' = muts + 1
    /\ UNCHANGED <<medium, writer, build, pend, calls, pre, applies>>

\* nv.active_part_mut().remove_variable(key, typ)
Remove(key, typ) ==
    /\ pc = "ready"
    /\ muts < MaxMuts
    /\ applies < MaxApplies
    /\ IF ActiveSlot(nv).tag # "Valid"
       THEN /\ pc' = "panic"
            /\ last' = [op |-> "remove", res |-> "Panic"]
            /\ nv' = nv
       ELSE /\ pc' = pc
            /\ nv' = [nv EXCEPT !.partitions[nv.active + 1].p = RemoveVariable(@, key, typ)]
            /\ last' = [op |-> "remove", res |-> "Ok", key |-> key, typ |-> typ,
                        before |-> ActiveSlot(nv).p, prev |-> Call(last)]
    /\ muts' = muts + 1
    /\ UNCHANGED <<medium, writer, build, pend, calls, pre, applies>>

\* the medium after the erase_if_needed calls of `erase`, in order
RECURSIVE EraseAll(_, _, _)
EraseAll(kind, m, erase) ==
    IF erase = <<>> THEN m
    ELSE EraseAll(kind, WriterErase(kind, m, erase[1][1], erase[1][2]), Tail(erase))

\* nv.apply(&mut w), up to its return or to its call of write_all
ApplyBegin ==
    /\ pc = "ready"
    /\ applies < MaxApplies
    /\ \E plans \in {[c \in BOOLEAN |-> ApplyPlan(nv, c)]} : \E chk \in Builds :
        \E plan \in {plans[chk]} :
           /\ nv' = plan.nv
           /\ pre' = [nv |-> nv, medium |-> medium, post |-> plan.nv]
           /\ medium' = EraseAll(writer, medium, plan.erase)
           /\ calls' = [i \in 1..Len(plan.erase) |->
                           [call |-> "erase_if_needed", offset |-> plan.erase[i][1],
                            size |-> plan.erase[i][2]]]
                       \o (IF plan.res = "Write"
                           THEN <<[call |-> "write_all", offset |-> plan.offset,
                                   size |-> BLen(plan.data)]>>
                           ELSE <<>>)
           /\ IF plan.res = "Write"
              THEN /\ pc' = "write"
                   /\ pend' = [offset |-> plan.offset, data |-> plan.data,
                               cuts |-> WriteCuts(ActiveSlot(plan.nv).p)]
                   /\ last' = [op |-> "apply", res |-> "Pending"]
              ELSE /\ pc' = IF plan.res = "SectionTooBig" THEN "ready" ELSE "panic"
                   /\ pend' = NoPend
                   /\ last' = [op |-> "apply", res |-> plan.res]
           /\ build' = FixBuild(chk, plans[TRUE] # plans[FALSE])
    /\ applies' = applies + 1
    /\ UNCHANGED <<writer, muts>>

\* the medium when the pending write_all has stored the first k bytes of
\* its buffer; k = -1: it has not touched the device yet
Stored(k) ==
    IF k < 0 THEN medium
    ELSE WriterStore(writer, WriterBegin(writer, medium, pend.offset, BLen(pend.data)),
                     pend.offset, BTake(pend.data, k))

\* the points at which the pending write_all may stop short
Stops == {k \in {-1, 0} \cup pend.cuts : k < BLen(pend.data)}

\* write_all stores the whole buffer and returns Ok; so does apply
WriteAll ==
    /\ pc = "write"
    /\ writer = "mtd" => pend.offset + BLen(pend.data) <= BLen(medium)
    /\ medium' = Stored(BLen(pend.data))
    /\ pc' = "ready"
    /\ pend' = NoPend
    /\ last' = [op |-> "apply", res |-> "Ok"]
    /\ UNCHANGED <<writer, build, nv, calls, pre, muts, applies>>

\* write_all fails with an I/O error after k bytes: apply returns
\* ApplyError and the caller gives up
WriteFail ==
    /\ pc = "write"
    /\ writer = "mtd"
    /\ \E k \in Stops : medium' = Stored(k)
    /\ pc' = "failed"
    /\ pend' = NoPend
    /\ last' = [op |-> "apply", res |-> "ApplyError"]
    /\ UNCHANGED <<writer, build, nv, calls, pre, muts, applies>>

\* the caller of a failed apply recovers the writer and calls apply again on
\* the Nvram it holds, up to the return or to the call of write_all
ApplyRetry ==
    /\ pc = "failed"
    /\ last.op = "apply"
    /\ last.res = "ApplyError"
    /\ \E plans \in {[c \in BOOLEAN |-> ApplyPlan(nv, c)]} : \E chk \in Builds :
        \E plan \in {plans[chk]} :
           /\ nv' = plan.nv
           /\ medium' = EraseAll(writer, medium, plan.erase)
           /\ calls' = [i \in 1..Len(plan.erase) |->
                           [call |-> "erase_if_needed", offset |-> plan.erase[i][1],
                            size |-> plan.erase[i][2]]]
                       \o (IF plan.res = "Write"
                           THEN <<[call |-> "write_all", offset |-> plan.offset,
                                   size |-> BLen(plan.data)]>>
                           ELSE <<>>)
           /\ IF plan.res = "Write"
              THEN /\ pc' = "rewrite"
                   /\ pend' = [offset |-> plan.offset, data |-> plan.data,
                               cuts |-> WriteCuts(ActiveSlot(plan.nv).p)]
                   /\ last' = [op |-> "retry", res |-> "Pending"]
              ELSE /\ pc' = "retryfailed"
                   /\ pend' = NoPend
                   /\ last' = [op |-> "retry", res |-> plan.res]
           /\ build' = FixBuild(chk, plans[TRUE] # plans[FALSE])
    /\ UNCHANGED <<writer, pre, muts, applies>>

\* the write_all of the second apply stores the whole buffer
RetryWriteAll ==
    /\ pc = "rewrite"
    /\ medium' = Stored(BLen(pend.data))
    /\ pc' = "retried"
    /\ pend' = NoPend
    /\ last' = [op |-> "retry", res |-> "Ok"]
    /\ UNCHANGED <<writer, build, nv, calls, pre, muts, applies>>

\* power is lost when write_all has stored k bytes; the model follows the
\* device up to the parse of the next process
PowerLoss ==
    /\ pc = "write"
    /\ \E k \in Stops : medium' = Stored(k)
    /\ pc' = "recover"
    /\ nv' = NoNv
    /\ pend' = NoPend
    /\ last' = [op |-> "powerloss"]
    /\ UNCHANGED <<writer, build, calls, pre, muts, applies>>

\* nv.serialize() on the Nvram as parsed
Serialize ==
    /\ pc = "ready"
    /\ last.op = "parse"
    /\ \E rs \in {[c \in BOOLEAN |-> NvramSerialize(nv, c)]} : \E chk \in Builds :
        /\ pc' = IF rs[chk].tag = "Ok" THEN "serialized" ELSE "panic"
        /\ last' = [op |-> "serialize", res |-> rs[chk].tag,
                    data |-> IF rs[chk].tag = "Ok" THEN rs[chk].bytes ELSE <<>>]
        /\ build' = FixBuild(chk, rs[TRUE] # rs[FALSE])
    /\ UNCHANGED <<medium, writer, nv, pend, calls, pre, muts, applies>>

\* the process ends after apply returned; the next one parses the device again
Restart ==
    /\ pc = "ready"
    /\ last.op = "apply"
    /\ applies < MaxApplies
    /\ pc' = "boot"
    /\ nv' = NoNv
    /\ last' = [op |-> "restart"]
    /\ UNCHANGED <<medium, writer, build, pend, calls, pre, muts, applies>>

\* normal operation
Next ==
    \/ Parse
    \/ \E key \in Keys, value \in Values, typ \in Types : Insert(key, value, typ)
    \/ \E key \in Keys, typ \in Types : Remove(key, typ)
    \/ ApplyBegin
    \/ WriteAll
    \/ Serialize
    \/ Restart

Spec == Init /\ [][Next]_vars

\* operation with power losses and I/O errors
NextFault ==
    \/ Parse
    \/ \E key \in Keys, value \in Values, typ \in Types :
          applies < MaxFaultApplies /\ Insert(key, value, typ)
    \/ \E key \in Keys, typ \in Types : applies < MaxFaultApplies /\ Remove(key, typ)
    \/ applies < MaxFaultApplies /\ ApplyBegin
    \/ WriteAll
    \/ WriteFail
    \/ ApplyRetry
    \/ RetryWriteAll
    \/ PowerLoss

SpecFault == Init /\ [][NextFault]_vars

\* ======================================================================
\* The v1/v2 (CHRP) store: apple-nvram/src/v1v2.rs.  Keys and values are
\* byte strings, a section's HashMap is a function from keys to variables.
\* ======================================================================

NameNvram == <<110, 118, 114, 97, 109>>
NameCommon == <<99, 111, 109, 109, 111, 110>>
NameSystem == <<115, 121, 115, 116, 101, 109>>

\* the offset of the second bank in Nvram::parse
V1_BANK_OFFSET == 65536

\* lib.rs chrp_checksum_add: u8 addition with end-around carry
ChrpChecksumAdd(lhs, rhs) == IF lhs + rhs > 255 THEN ((lhs + rhs) % 256) + 1 ELSE lhs + rhs

\* lib.rs slice_rstrip, on a list of bytes
RECURSIVE SliceRstrip(_, _)
SliceRstrip(ts, t) ==
    IF ts # <<>> /\ ts[Len(ts)] = t THEN SliceRstrip(SubSeq(ts, 1, Len(ts) - 1), t) ELSE ts

\* the offset of the first byte t in the runs j.. of r, -1 if there is none
RECURSIVE FindRun(_, _, _)
FindRun(r, t, j) ==
    IF j > Len(r) THEN -1
    ELSE IF r[j][1] = t THEN (IF j = 1 THEN 0 ELSE r[j - 1][2])
    ELSE FindRun(r, t, j + 1)

\* lib.rs slice_find, on a byte string (-1: None)
SliceFind(r, t) == FindRun(r, t, 1)

RECURSIVE ChecksumFold(_, _, _)
ChecksumFold(name, i, cksum) ==
    IF i > Len(name) THEN cksum
    ELSE ChecksumFold(name, i + 1, ChrpChecksumAdd(cksum, name[i]))

\* CHRPHeader::checksum
CHRPChecksum(h) ==
    ChrpChecksumAdd(ChrpChecksumAdd(ChrpChecksumAdd(ChecksumFold(h.name, 1, 0), h.signature),
                                    h.size % 256),
                    h.size \div 256)

\* the candidate header CHRPHeader::parse builds from 16 bytes
CHRPHeaderOf(b) ==
    [name |-> SliceRstrip(SubSeq(b, 5, 16), 0), size |-> b[3] + 256 * b[4], signature |-> b[1]]

\* CHRPHeader::parse of the 16 bytes b
CHRPHeaderParse(b) ==
    IF CHRPChecksum(CHRPHeaderOf(b)) # b[2] THEN [tag |-> "ParseError"]
    ELSE [tag |-> "Ok", h |-> CHRPHeaderOf(b)]

\* CHRPHeader::serialize
CHRPHeaderSerialize(h) ==
    Bytes(<<h.signature, CHRPChecksum(h), h.size % 256, h.size \div 256>>
          \o h.name \o [i \in 1..(12 - Len(h.name)) |-> 0])

\* v1v2 Variable
V1Variable(key, value, typ) == [key |-> key, value |-> value, typ |-> typ]

\* HashMap::insert and HashMap::remove
MapPut(f, k, v) == [x \in (DOMAIN f) \cup {k} |-> IF x = k THEN v ELSE f[x]]
MapDel(f, k) == [x \in (DOMAIN f) \ {k} |-> f[x]]

\* the loop of Section::parse over the bytes nvr that follow the header
RECURSIVE SectionEntries(_, _, _)
SectionEntry(nvr, typ, values, zero, eq) ==
    IF eq < 0 THEN values
    ELSE SectionEntries(BDrop(nvr, zero + 1), typ,
                        MapPut(values, BTake(nvr, eq),
                               V1Variable(BTake(nvr, eq), BSlice(nvr, eq + 1, zero), typ)))

SectionCand(nvr, typ, values, zero) ==
    IF zero < 0 THEN values
    ELSE SectionEntry(nvr, typ, values, zero, SliceFind(BTake(nvr, zero), 61))

SectionEntries(nvr, typ, values) == SectionCand(nvr, typ, values, SliceFind(nvr, 0))

SectionWith(nvr, rh) ==
    IF rh.tag # "Ok" THEN [tag |-> "ParseError"]
    ELSE [tag |-> "Ok",
          sec |-> [header |-> rh.h,
                   values |-> SectionEntries(BDrop(nvr, 16),
                                             IF rh.h.name = NameCommon THEN "Common"
                                             ELSE "System",
                                             <<>>)]]

\* Section::parse; nvr reaches from the section's first byte to the end of
\* the image ("Panic": a slice index out of range)
SectionParse(nvr) ==
    IF BLen(nvr) < 16 THEN [tag |-> "Panic"]
    ELSE SectionWith(nvr, CHRPHeaderParse(Plain(BTake(nvr, 16))))

\* Section::size_bytes
SectionSizeBytes(s) == s.header.size * 16

\* the key=value\0 records of a section, in the order ord of its keys
RECURSIVE SectionBody(_, _, _)
SectionBody(values, ord, i) ==
    IF i > Len(ord) THEN <<>>
    ELSE Cat(Cat(Cat3(values[ord[i]].key, Bytes(<<61>>), values[ord[i]].value), Bytes(<<0>>)),
             SectionBody(values, ord, i + 1))

SectionSerializeWith_Strict(s, body) ==
    IF 16 + BLen(body) >= SectionSizeBytes(s) THEN [tag |-> "SectionTooBig"]
    ELSE [tag |-> "Ok",
          bytes |-> Cat3(CHRPHeaderSerialize(s.header), body,
                         Fill(0, SectionSizeBytes(s) - 16 - BLen(body)))]

SectionSerializeWith(s, body) ==
    IF 16 + BLen(body) > SectionSizeBytes(s) THEN [tag |-> "SectionTooBig"]
    ELSE [tag |-> "Ok",
          bytes |-> Cat3(CHRPHeaderSerialize(s.header), body,
                         Fill(0, SectionSizeBytes(s) - 16 - BLen(body)))]

\* Section::serialize, the HashMap yielding its keys in the order ord
SectionSerialize(s, ord) == SectionSerializeWith(s, SectionBody(s.values, ord, 1))

\* the orders in which a HashMap with the key set S may yield its entries
Orders(S) ==
    {o \in [1..Cardinality(S) -> S] : \A i, j \in 1..Cardinality(S) : o[i] = o[j] => i = j}

\* the end of v1v2 Partition::parse: the checksum and the section names
V1PartitionOf(nvr, h, sec1, sec2) ==
    IF 32 + SectionSizeBytes(sec1) + SectionSizeBytes(sec2) > BLen(nvr) THEN [tag |-> "Panic"]
    ELSE IF Plain(BSlice(nvr, 16, 20))
            # Adler32(BSlice(nvr, 20, 32 + SectionSizeBytes(sec1) + SectionSizeBytes(sec2)))
    THEN [tag |-> "ParseError"]
    ELSE IF {sec1.header.name, sec2.header.name} # {NameCommon, NameSystem}
    THEN [tag |-> "ParseError"]
    ELSE [tag |-> "Ok",
          p |-> [header |-> h,
                 generation |-> Plain(BSlice(nvr, 20, 24)),
                 common |-> IF sec2.header.name = NameCommon THEN sec2 ELSE sec1,
                 system |-> IF sec2.header.name = NameSystem THEN sec2 ELSE sec1]]

V1PartitionSec2(nvr, h, sec1, r2) ==
    IF r2.tag # "Ok" THEN [tag |-> r2.tag] ELSE V1PartitionOf(nvr, h, sec1, r2.sec)

V1PartitionSec1(nvr, h, r1) ==
    IF r1.tag # "Ok" THEN [tag |-> r1.tag]
    ELSE IF 32 + SectionSizeBytes(r1.sec) > BLen(nvr) THEN [tag |-> "Panic"]
    ELSE V1PartitionSec2(nvr, h, r1.sec, SectionParse(BDrop(nvr, 32 + SectionSizeBytes(r1.sec))))

V1PartitionHeader(nvr, rh) ==
    IF rh.tag # "Ok" THEN [tag |-> "ParseError"]
    ELSE IF rh.h.name # NameNvram THEN [tag |-> "ParseError"]
    ELSE IF BLen(nvr) < 32 THEN [tag |-> "Panic"]
    ELSE V1PartitionSec1(nvr, rh.h, SectionParse(BDrop(nvr, 32)))

\* v1v2 Partition::parse of the bytes from a bank's start to the end of the image
V1PartitionParse(nvr) ==
    IF BLen(nvr) < 16 THEN [tag |-> "Panic"]
    ELSE V1PartitionHeader(nvr, CHRPHeaderParse(Plain(BTake(nvr, 16))))

V1PartitionBytes(p, body) ==
    Cat3(CHRPHeaderSerialize(p.header), Bytes(Adler32(body)), body)

V1PartitionSerializeWith(p, c, s) ==
    IF c.tag # "Ok" THEN [tag |-> c.tag]
    ELSE IF s.tag # "Ok" THEN [tag |-> s.tag]
    ELSE [tag |-> "Ok",
          bytes |-> V1PartitionBytes(p, Cat3(Cat(Bytes(p.generation), Fill(0, 8)),
                                             c.bytes, s.bytes))]

\* v1v2 Partition::serialize, the two HashMaps yielding their keys in the
\* orders oc and os
V1PartitionSerialize(p, oc, os) ==
    V1PartitionSerializeWith(p, SectionSerialize(p.common, oc), SectionSerialize(p.system, os))

\* the end of v1v2 Nvram::parse: a bank that failed is a clone of the other
V1Elect(p1, p2) ==
    [partitions |-> <<p1, p2>>,
     active |-> IF U32Gt(p1.generation, p2.generation) THEN 0 ELSE 1]

V1NvramOf(r1, r2) ==
    IF r1.tag = "Panic" \/ r2.tag = "Panic" THEN [tag |-> "Panic"]
    ELSE IF r1.tag # "Ok" /\ r2.tag # "Ok" THEN [tag |-> "ParseError"]
    ELSE [tag |-> "Ok",
          nv |-> V1Elect(IF r1.tag = "Ok" THEN r1.p ELSE r2.p,
                         IF r2.tag = "Ok" THEN r2.p ELSE r1.p)]

\* v1v2 Nvram::parse
V1NvramParse(nvr) ==
    IF BLen(nvr) < V1_BANK_OFFSET THEN [tag |-> "Panic"]
    ELSE V1NvramOf(V1PartitionParse(nvr), V1PartitionParse(BDrop(nvr, V1_BANK_OFFSET)))

V1NvramSerializeWith(r0, r1) ==
    IF r0.tag # "Ok" THEN [tag |-> r0.tag]
    ELSE IF r1.tag # "Ok" THEN [tag |-> r1.tag]
    ELSE [tag |-> "Ok", bytes |-> Cat(r0.bytes, r1.bytes)]

\* v1v2 Nvram::serialize; o holds the orders of the four HashMaps
V1NvramSerialize(nvm, o) ==
    V1NvramSerializeWith(V1PartitionSerialize(nvm.partitions[1], o[1], o[2]),
                         V1PartitionSerialize(nvm.partitions[2], o[3], o[4]))

\* the orders in which the four HashMaps of nvm may yield their keys
V1Orders(nvm) ==
    Orders(DOMAIN nvm.partitions[1].common.values)
    \X Orders(DOMAIN nvm.partitions[1].system.values)
    \X Orders(DOMAIN nvm.partitions[2].common.values)
    \X Orders(DOMAIN nvm.partitions[2].system.values)

\* prepare_for_write that copies and bumps the bank but leaves active as it is
V1PrepareWith_NoToggle(nvm, chk, g) ==
    IF g.ovf /\ chk THEN [tag |-> "Panic", nv |-> nvm]
    ELSE [tag |-> "Ok",
          nv |-> [partitions |-> [nvm.partitions EXCEPT ![2 - nvm.active] =
                                     [nvm.partitions[nvm.active + 1] EXCEPT !.generation = g.v]],
                  active |-> nvm.active]]

V1PrepareWith(nvm, chk, g) ==
    IF g.ovf /\ chk THEN [tag |-> "Panic", nv |-> nvm]
    ELSE [tag |-> "Ok",
          nv |-> [partitions |-> [nvm.partitions EXCEPT ![2 - nvm.active] =
                                     [nvm.partitions[nvm.active + 1] EXCEPT !.generation = g.v]],
                  active |-> 1 - nvm.active]]

\* v1v2 Nvram::prepare_for_write
V1PrepareForWrite(nvm, chk) ==
    V1PrepareWith(nvm, chk, U32Add(nvm.partitions[nvm.active + 1].generation, U32FromInt(1)))

\* v1v2 Nvram::active_part_mut
V1ActivePart(nvm) == nvm.partitions[nvm.active + 1]

\* v1v2 Partition::get_variable
V1GetVariable(p, key) ==
    IF key \in DOMAIN p.common.values THEN [some |-> TRUE, var |-> p.common.values[key]]
    ELSE IF key \in DOMAIN p.system.values THEN [some |-> TRUE, var |-> p.system.values[key]]
    ELSE [some |-> FALSE]

V1InsertVariable_AlwaysCommon(p, key, value, typ) ==
    [p EXCEPT !.common.values = MapPut(@, key, V1Variable(key, value, typ))]

\* v1v2 Partition::insert_variable
V1InsertVariable(p, key, value, typ) ==
    IF typ = "Common"
    THEN [p EXCEPT !.common.values = MapPut(@, key, V1Variable(key, value, typ))]
    ELSE [p EXCEPT !.system.values = MapPut(@, key, V1Variable(key, value, typ))]

\* v1v2 Partition::remove_variable
V1RemoveVariable(p, key, typ) ==
    IF typ = "Common"
    THEN [p EXCEPT !.common.values = MapDel(@, key)]
    ELSE [p EXCEPT !.system.values = MapDel(@, key)]

UnescapeCons(head, rest) ==
    IF rest.tag # "Ok" THEN rest ELSE [tag |-> "Ok", out |-> Cat(head, rest.out)]

\* the bytes UnescapeVal yields for the bytes s[i..]; with overflow checks
\* (chk) the subtraction (count & 0x7F) - 1 panics for a zero count, without
\* them it wraps to 255
RECURSIVE UnescapeVal(_, _, _)
UnescapeVal(s, i, chk) ==
    IF i > Len(s) THEN [tag |-> "Ok", out |-> <<>>]
    ELSE IF s[i] # 255 THEN UnescapeCons(Fill(s[i], 1), UnescapeVal(s, i + 1, chk))
    ELSE IF i + 1 > Len(s) THEN [tag |-> "Ok", out |-> <<>>]
    ELSE IF s[i + 1] % 128 = 0
    THEN IF chk THEN [tag |-> "Panic"]
         ELSE UnescapeCons(Fill(IF s[i + 1] < 128 THEN 0 ELSE 255, 256),
                           UnescapeVal(s, i + 2, chk))
    ELSE UnescapeCons(Fill(IF s[i + 1] < 128 THEN 0 ELSE 255, s[i + 1] % 128),
                      UnescapeVal(s, i + 2, chk))

\* v1v2 Variable::value
V1VariableValue(v, chk) == UnescapeVal(Plain(v.value), 1, chk)

\* lib.rs erase_if_needed(file, size): the MEMERASE ioctl on [0, size) of a
\* flash device, nothing on a file that is no flash device
V1EraseIfNeeded(kind, m, size) == IF kind = "mtd" THEN EraseRegion(m, 0, size) ELSE m

\* ----------------------------------------------------------------------
\* The v1v2 program: asahi-nvram parses the device, calls prepare_for_write,
\* changes variables of the active bank, serializes both banks, erases the
\* range and writes the image from offset 0.
\* ----------------------------------------------------------------------

ValEsc == Bytes(<<255, 2>>)
ValZeroCount == Bytes(<<255, 0>>)
V1Values == {Val1, ValEsc, ValZeroCount}

RECURSIVE V1Map(_, _, _)
V1Map(kvs, typ, i) ==
    IF i = 0 THEN <<>>
    ELSE MapPut(V1Map(kvs, typ, i - 1), kvs[i][1], V1Variable(kvs[i][1], kvs[i][2], typ))

V1Sec(name, size, typ, kvs) ==
    [header |-> [name |-> name, size |-> size, signature |-> 112],
     values |-> V1Map(kvs, typ, Len(kvs))]

\* a bank of 0x10000 bytes: 32 + 2048 * 16 + 2046 * 16
V1Part(generation, com, sys) ==
    [header |-> [name |-> NameNvram, size |-> 4096, signature |-> 90],
     generation |-> generation,
     common |-> V1Sec(NameCommon, 2048, "Common", com),
     system |-> V1Sec(NameSystem, 2046, "System", sys)]

V1Bank(generation, com, sys) ==
    V1PartitionSerialize(V1Part(generation, com, sys),
                         [i \in 1..Len(com) |-> com[i][1]],
                         [i \in 1..Len(sys) |-> sys[i][1]]).bytes

V1Images ==
    { Cat(V1Bank(Gen1, << <<KeyA, Val1>> >>, <<>>),
          V1Bank(Gen2, << <<KeyA, Val1>>, <<KeyB, Val2>> >>, << <<KeyA, Val2>> >>)),
      Cat(V1Bank(Gen2, << <<KeyA, Val1>> >>, <<>>), V1Bank(Gen1, <<>>, <<>>)),
      Cat(V1Bank(Gen1, << <<KeyA, Val1>> >>, <<>>), EmptyBank),
      Cat(V1Bank(GenMax, << <<KeyA, Val1>> >>, << <<KeyB, Val2>> >>),
          V1Bank(Gen2, << <<KeyA, Val2>> >>, <<>>)) }

NoV1Nv == [active |-> 0]

V1Init ==
    /\ medium \in V1Images
    /\ writer \in {"mtd", "file"}
    /\ build = "any"
    /\ pc = "boot"
    /\ nv = NoV1Nv
    /\ pend = NoPend
    /\ calls = <<>>
    /\ pre = [nv |-> NoV1Nv, medium |-> <<>>]
    /\ last = [op |-> "none"]
    /\ muts = 0
    /\ applies = 0

\* a process starts: v1v2 Nvram::parse on the bytes read from the device
V1Parse ==
    /\ pc \in {"boot", "recover"}
    /\ \E r \in {V1NvramParse(medium)} :
        /\ pc' = IF r.tag = "Panic" THEN "panic"
                 ELSE IF r.tag # "Ok" THEN "failed"
                 ELSE IF pc = "recover" THEN "recovered" ELSE "ready"
        /\ nv' = IF r.tag = "Ok" THEN r.nv ELSE NoV1Nv
        /\ last' = [op |-> "parse", res |-> r.tag]
    /\ UNCHANGED <<medium, writer, build, pend, calls, pre, muts, applies>>

\* nv.prepare_for_write(), the first call of an update after the parse
V1Prepare ==
    /\ pc = "ready"
    /\ last.op = "parse"
    /\ applies < MaxApplies
    /\ \E rs \in {[c \in BOOLEAN |-> V1PrepareForWrite(nv, c)]} : \E chk \in Builds :
        /\ pc' = IF rs[chk].tag = "Ok" THEN "prepared" ELSE "panic"
        /\ nv' = rs[chk].nv
        /\ build' = FixBuild(chk, rs[TRUE] # rs[FALSE])
    /\ pre' = [nv |-> nv, medium |-> medium]
    /\ last' = [op |-> "prepare"]
    /\ UNCHANGED <<medium, writer, pend, calls, muts, applies>>

\* nv.active_part_mut().insert_variable(key, value, typ)
V1Insert(key, value, typ) ==
    /\ pc \in {"ready", "prepared"}
    /\ muts < MaxMuts
    /\ applies < MaxApplies
    /\ nv' = [nv EXCEPT !.partitions[nv.active + 1] = V1InsertVariable(@, key, value, typ)]
    /\ last' = [op |-> "insert", res |-> "Ok", key |-> key, value |-> value, typ |-> typ,
                before |-> V1ActivePart(nv)]
    /\ muts' = muts + 1
    /\ UNCHANGED <<medium, writer, build, pc, pend, calls, pre, applies>>

\* nv.active_part_mut().remove_variable(key, typ)
V1Remove(key, typ) ==
    /\ pc \in {"ready", "prepared"}
    /\ muts < MaxMuts
    /\ applies < MaxApplies
    /\ nv' = [nv EXCEPT !.partitions[nv.active + 1] = V1RemoveVariable(@, key, typ)]
    /\ last' = [op |-> "remove", res |-> "Ok", key |-> key, typ |-> typ,
                before |-> V1ActivePart(nv)]
    /\ muts' = muts + 1
    /\ UNCHANGED <<medium, writer, build, pc, pend, calls, pre, applies>>

\* the prefix lengths at which the write of the image may stand when it is
\* interrupted: inside and after each bank's headers, and before the last byte
V1WriteCuts(data) ==
    {k \in {0, 20, 32, 48, V1_BANK_OFFSET, V1_BANK_OFFSET + 20, V1_BANK_OFFSET + 48,
            BLen(data) - 1} : k < BLen(data)}

\* file.rewind(); nv.serialize()?; erase_if_needed(&file, data.len()), up to
\* the call of file.write_all
V1Save ==
    /\ pc = "prepared"
    /\ \E o \in V1Orders(nv) : \E r \in {V1NvramSerialize(nv, o)} :
        IF r.tag = "Ok"
        THEN /\ medium' = V1EraseIfNeeded(writer, medium, BLen(r.bytes))
             /\ pend' = [offset |-> 0, data |-> r.bytes, cuts |-> V1WriteCuts(r.bytes)]
             /\ calls' = <<[call |-> "erase_if_needed", offset |-> 0, size |-> BLen(r.bytes)],
                           [call |-> "write_all", offset |-> 0, size |-> BLen(r.bytes)]>>
             /\ pc' = "write"
             /\ pre' = [nv |-> pre.nv, medium |-> pre.medium, data |-> r.bytes]
             /\ last' = [op |-> "save", res |-> "Pending"]
        ELSE /\ pc' = "failed"
             /\ last' = [op |-> "save", res |-> r.tag]
             /\ UNCHANGED <<medium, pend, calls, pre>>
    /\ applies' = applies + 1
    /\ UNCHANGED <<writer, build, nv, muts>>

\* the device when file.write_all has stored the first k bytes of the image
V1Stored(k) == Cat(BTake(pend.data, k), BDrop(medium, k))

\* file.write_all stores the whole image; the process ends
V1WriteAll ==
    /\ pc = "write"
    /\ medium' = V1Stored(BLen(pend.data))
    /\ pc' = "done"
    /\ pend' = NoPend
    /\ last' = [op |-> "save", res |-> "Ok"]
    /\ UNCHANGED <<writer, build, nv, calls, pre, muts, applies>>

\* power is lost when file.write_all has stored k bytes
V1PowerLoss ==
    /\ pc = "write"
    /\ \E k \in pend.cuts : medium' = V1Stored(k)
    /\ pc' = "recover"
    /\ nv' = NoV1Nv
    /\ pend' = NoPend
    /\ last' = [op |-> "powerloss"]
    /\ UNCHANGED <<writer, build, calls, pre, muts, applies>>

\* the next process parses the device again
V1Restart ==
    /\ pc = "done"
    /\ applies < MaxApplies
    /\ pc' = "boot"
    /\ nv' = NoV1Nv
    /\ last' = [op |-> "restart"]
    /\ UNCHANGED <<medium, writer, build, pend, calls, pre, muts, applies>>

V1Next ==
    \/ V1Parse
    \/ V1Prepare
    \/ \E key \in Keys, value \in V1Values, typ \in Types : V1Insert(key, value, typ)
    \/ \E key \in Keys, typ \in Types : V1Remove(key, typ)
    \/ V1Save
    \/ V1WriteAll
    \/ V1PowerLoss
    \/ V1Restart

SpecV1V2 == V1Init /\ [][V1Next]_vars

\* ----------------------------------------------------------------------
\* The v1v2 codec on its own: Nvram::parse on what a device may hold, the
\* two banks chosen independently, and Nvram::serialize on the result.
\* ----------------------------------------------------------------------

\* a bank whose system section comes first
V1BankSystemFirst(generation, com, sys) ==
    V1PartitionSerializeWith(V1Part(generation, com, sys),
                             SectionSerialize(V1Part(generation, com, sys).system,
                                              [i \in 1..Len(sys) |-> sys[i][1]]),
                             SectionSerialize(V1Part(generation, com, sys).common,
                                              [i \in 1..Len(com) |-> com[i][1]])).bytes

\* a bank of which only the first 32 bytes were written after an erase
V1TornBank == Cat(BTake(V1Bank(Gen1, << <<KeyA, Val1>> >>, <<>>), 32), Fill(255, 65536 - 32))

\* a bank whose stored Adler-32 does not match
V1BadSumBank ==
    Cat3(BTake(V1Bank(Gen2, << <<KeyA, Val1>> >>, <<>>), 16), Fill(0, 4),
         BDrop(V1Bank(Gen2, << <<KeyA, Val1>> >>, <<>>), 20))

\* a bank whose section headers declare 2 units each: the partition takes
\* 32 + 32 + 32 bytes, the rest of the bank is erased flash
V1SmallPart(generation, com) ==
    [header |-> [name |-> NameNvram, size |-> 6, signature |-> 90],
     generation |-> generation,
     common |-> V1Sec(NameCommon, 2, "Common", com),
     system |-> V1Sec(NameSystem, 2, "System", <<>>)]

V1SmallBank ==
    Cat(V1PartitionSerialize(V1SmallPart(Gen1, << <<KeyA, Val1>> >>), <<KeyA>>, <<>>).bytes,
        Fill(255, 65536 - 96))

\* a bank whose common section of 2 units is filled to its last byte by the
\* record a=AAAAAAAAAAAAAA, with no zero byte before the system section
V1FullBank ==
    Cat(V1PartitionBytes(V1SmallPart(Gen1, <<>>),
                         Cat3(Cat(Bytes(Gen1), Fill(0, 8)),
                              Cat3(CHRPHeaderSerialize(V1SmallPart(Gen1, <<>>).common.header),
                                   Cat(KeyA, Bytes(<<61>>)), Fill(65, 14)),
                              SectionSerialize(V1SmallPart(Gen1, <<>>).system, <<>>).bytes)),
        Fill(255, 65536 - 96))

V1CodecBanks ==
    { V1Bank(Gen1, << <<KeyA, Val1>> >>, <<>>),
      V1Bank(Gen2, << <<KeyA, Val1>>, <<KeyB, Val2>> >>, << <<KeyA, Val2>> >>),
      V1Bank(Gen1, <<>>, << <<KeyB, Val1>> >>),
      V1Bank(GenMax, << <<KeyA, Val2>> >>, <<>>),
      V1Bank(Gen0, <<>>, <<>>),
      V1BankSystemFirst(Gen2, << <<KeyA, Val1>> >>, << <<KeyB, Val2>> >>),
      EmptyBank,
      GarbageBank,
      V1TornBank,
      V1BadSumBank,
      V1SmallBank,
      V1FullBank }

V1CodecInit ==
    /\ medium \in {Cat(b0, b1) : b0 \in V1CodecBanks, b1 \in V1CodecBanks}
    /\ writer = "file"
    /\ build = "any"
    /\ pc = "boot"
    /\ nv = NoV1Nv
    /\ pend = NoPend
    /\ calls = <<>>
    /\ pre = [nv |-> NoV1Nv, medium |-> <<>>]
    /\ last = [op |-> "none"]
    /\ muts = 0
    /\ applies = 0

\* nv.serialize() on the Nvram as parsed
V1Serialize ==
    /\ pc = "ready"
    /\ last.op = "parse"
    /\ \E o \in V1Orders(nv) : \E r \in {V1NvramSerialize(nv, o)} :
        /\ pend' = [offset |-> 0, data |-> IF r.tag = "Ok" THEN r.bytes ELSE <<>>, cuts |-> {}]
        /\ last' = [op |-> "serialize", res |-> r.tag]
    /\ pc' = "serialized"
    /\ UNCHANGED <<medium, writer, build, nv, calls, pre, muts, applies>>

V1CodecNext ==
    \/ V1Parse
    \/ V1Serialize

SpecV1Codec == V1CodecInit /\ [][V1CodecNext]_vars

\* ----------------------------------------------------------------------
\* Section::serialize on sections of one to three units of 16 bytes whose
\* variables fill them up to, exactly to, and beyond their size.
\* ----------------------------------------------------------------------

\* the lengths of the values: "k=" + value + terminator is 3 bytes longer
SectionValueLens == {0, 5, 6, 13, 14, 29}

SectionSizes == {1, 2, 3}

\* a section's HashMap: each key absent or bound to a value of 'A' bytes
SectionMaps(typ) ==
    UNION {[K -> {V1Variable(KeyA, Fill(65, n), typ) : n \in SectionValueLens}]
              : K \in SUBSET {KeyA, KeyB}}

SectionInputs ==
    {[header |-> [name |-> NameCommon, size |-> z, signature |-> 112],
      values |-> [k \in DOMAIN f |-> [f[k] EXCEPT !.key = k]]]
        : z \in SectionSizes, f \in SectionMaps("Common")}

SectionInit ==
    /\ nv \in SectionInputs
    /\ medium = <<>>
    /\ writer = "file"
    /\ build = "any"
    /\ pc = "boot"
    /\ pend = NoPend
    /\ calls = <<>>
    /\ pre = [nv |-> NoV1Nv, medium |-> <<>>]
    /\ last = [op |-> "none"]
    /\ muts = 0
    /\ applies = 0

\* section.serialize(&mut v) on an empty vector
V1SectionSerialize ==
    /\ pc = "boot"
    /\ \E o \in Orders(DOMAIN nv.values) : \E r \in {SectionSerialize(nv, o)} :
        /\ pend' = [offset |-> 0, data |-> IF r.tag = "Ok" THEN r.bytes ELSE <<>>, cuts |-> {}]
        /\ last' = [op |-> "serialize", res |-> r.tag]
    /\ pc' = "serialized"
    /\ UNCHANGED <<medium, writer, build, nv, calls, pre, muts, applies>>

SectionNext == V1SectionSerialize

SpecV1Section == SectionInit /\ [][SectionNext]_vars

\* ----------------------------------------------------------------------
\* The escape decoder: Variable::value() collects UnescapeVal over the stored
\* bytes of a variable.
\* ----------------------------------------------------------------------

MaxEscLen == 5

\* plain bytes, both escape markers' zero counts (0x00, 0x80), a zero run
\* (0x03), an 0xFF run (0x82) and the escape byte
EscBytes == {0, 3, 65, 128, 130, 255}

EscInputs == UNION {[1..n -> EscBytes] : n \in 0..MaxEscLen}

UnescapeInit ==
    /\ nv \in {V1Variable(KeyA, Bytes(s), "Common") : s \in EscInputs}
    /\ medium = <<>>
    /\ writer = "file"
    /\ build = "any"
    /\ pc = "boot"
    /\ pend = NoPend
    /\ calls = <<>>
    /\ pre = [nv |-> NoV1Nv, medium |-> <<>>]
    /\ last = [op |-> "none"]
    /\ muts = 0
    /\ applies = 0

\* var.value()
V1Value ==
    /\ pc = "boot"
    /\ \E rs \in {[c \in BOOLEAN |-> V1VariableValue(nv, c)]} : \E chk \in Builds :
        /\ last' = [op |-> "value", res |-> rs[chk].tag,
                    out |-> IF rs[chk].tag = "Ok" THEN rs[chk].out ELSE <<>>]
        /\ build' = FixBuild(chk, rs[TRUE] # rs[FALSE])
        /\ pc' = IF rs[chk].tag = "Ok" THEN "done" ELSE "panic"
    /\ UNCHANGED <<medium, writer, nv, pend, calls, pre, muts, applies>>

UnescapeNext == V1Value

SpecUnescape == UnescapeInit /\ [][UnescapeNext]_vars

\* ----------------------------------------------------------------------
\* nvram_parse: the entry point of every caller.  It tries v3 Nvram::parse
\* and, when that fails, v1v2 Nvram::parse; when both fail the result is
\* ParseError.
\* ----------------------------------------------------------------------

\* nvram_parse(nvr)
nvram_parse(nvr, chk) ==
    LET r3 == NvramParse(nvr, chk)
    IN IF r3.tag = "Panic" THEN [tag |-> "Panic"]
       ELSE IF r3.tag = "Ok" THEN [tag |-> "Ok", impl |-> "v3", nv |-> r3.nv]
       ELSE LET r1 == V1NvramParse(nvr)
            IN IF r1.tag = "Panic" THEN [tag |-> "Panic"]
               ELSE IF r1.tag = "Ok" THEN [tag |-> "Ok", impl |-> "v1v2", nv |-> r1.nv]
               ELSE [tag |-> "ParseError"]

\* the bytes b with those from offset at on replaced by the bytes w
Patch(b, at, w) == Cat3(BTake(b, at), w, BDrop(b, at + BLen(w)))

\* a v3 bank with one record a=1: the store header takes bytes 0..24, the
\* record's header bytes 24..60 (name_size at 32, data_size at 36, crc at 56)
V3OneRecord == ValidBank(Gen1, <<Rec(KeyA, Val1, "Common", VAR_ADDED)>>)

\* the record's crc does not match its value
V3BadCrcBank == Patch(V3OneRecord, 56, Fill(0, 4))

\* the record's name_size is 0
V3NameZeroBank == Patch(V3OneRecord, 32, Bytes(U32FromInt(0)))

\* name_size + data_size overflows u32: 0xFFFFFFFF + 2
V3OverflowBank == Patch(V3OneRecord, 32, Bytes(GenMax \o U32FromInt(2)))

\* data_size reaches beyond the window
V3ExceedsBank == Patch(V3OneRecord, 36, Bytes(U32FromInt(PARTITION_SIZE)))

\* the store header's version byte is 2
V3Version2Bank == Patch(V3OneRecord, 14, Fill(2, 1))

\* the store header's size field is 0x20000 and one record ends 10 bytes
\* before the end of the window, the rest being erased flash
V3HeaderBigBank ==
    Patch(ValidBank(Gen1, <<Rec(KeyA, Fill(46, PARTITION_SIZE - STORE_HEADER_SIZE
                                              - VAR_HEADER_SIZE - 2 - 10),
                                "Common", VAR_ADDED)>>),
          4, Bytes(U32FromInt(2 * PARTITION_SIZE)))

DetectBanks ==
    { V3OneRecord, ValidBank(Gen2, <<>>), EmptyBank, GarbageBank,
      V3BadCrcBank, V3NameZeroBank, V3OverflowBank, V3ExceedsBank, V3Version2Bank,
      V3HeaderBigBank, V1Bank(Gen1, << <<KeyA, Val1>> >>, <<>>), V1BadSumBank }

\* images of two banks, and images of 16 and of 17 banks
DetectImages ==
    {Cat(b0, b1) : b0 \in DetectBanks, b1 \in DetectBanks}
    \cup {Cat(V3OneRecord, Fill(255, n * PARTITION_SIZE)) : n \in {MAX_PARTITIONS - 1, MAX_PARTITIONS}}

DetectInit ==
    /\ medium \in DetectImages
    /\ writer = "file"
    /\ build = "any"
    /\ pc = "boot"
    /\ nv = NoNv
    /\ pend = NoPend
    /\ calls = <<>>
    /\ pre = [nv |-> NoNv, medium |-> <<>>]
    /\ last = [op |-> "none"]
    /\ muts = 0
    /\ applies = 0

\* let mut nv = nvram_parse(&data)
Detect ==
    /\ pc = "boot"
    /\ \E rs \in {[c \in BOOLEAN |-> nvram_parse(medium, c)]} : \E chk \in Builds :
        /\ pc' = IF rs[chk].tag = "Panic" THEN "panic"
                 ELSE IF rs[chk].tag # "Ok" THEN "failed" ELSE "ready"
        /\ nv' = IF rs[chk].tag = "Ok" THEN rs[chk].nv ELSE NoNv
        /\ last' = [op |-> "nvram_parse", res |-> rs[chk].tag,
                    impl |-> IF rs[chk].tag = "Ok" THEN rs[chk].impl ELSE "none"]
        /\ build' = FixBuild(chk, rs[TRUE] # rs[FALSE])
    /\ UNCHANGED <<medium, writer, pend, calls, pre, muts, applies>>

DetectNext == Detect

SpecDetect == DetectInit /\ [][DetectNext]_vars

\* ======================================================================
\* Properties of the v1v2 store
\* ======================================================================

\* bank i of a v1v2 image, as Nvram::parse hands it to Partition::parse
V1BankOf(m, i) == BDrop(m, i * 65536)

\* the bank of the medium that held the generation active at the parse
V1OldIndex ==
    IF V1PartitionParse(V1BankOf(pre.medium, pre.nv.active)).tag = "Ok"
    THEN pre.nv.active ELSE 1 - pre.nv.active

\* the bank prepare_for_write made the active one is completely on the medium
V1NewBankWritten ==
    BSlice(medium, (1 - pre.nv.active) * 65536, (2 - pre.nv.active) * 65536)
    = BSlice(pre.data, (1 - pre.nv.active) * 65536, (2 - pre.nv.active) * 65536)

\* C2: in every intermediate state of the medium during an update (after
\* the erase, after any prefix of the write), the bank that held the
\* previous generation still parses with its old generation and variables,
\* as long as the new-generation bank is not completely written.
C2_PreviousBankIntact ==
    (pc \in {"write", "recover"} /\ ~V1NewBankWritten) =>
        LET r == V1PartitionParse(V1BankOf(medium, V1OldIndex))
            old == V1ActivePart(pre.nv)
        IN /\ r.tag = "Ok"
           /\ r.p.generation = old.generation
           /\ r.p.common.values = old.common.values
           /\ r.p.system.values = old.system.values

\* C15: prepare_for_write toggles the active index, the new active bank has
\* the variables of the old active bank and its generation + 1, and the
\* serialized image parses with the same bank selected as active.
C15_V1PrepareForWrite ==
    (pc = "prepared" /\ last.op = "prepare") =>
        LET old == V1ActivePart(pre.nv)
            new == V1ActivePart(nv)
            g == U32Add(old.generation, U32FromInt(1))
        IN /\ nv.active = 1 - pre.nv.active
           /\ new.common.values = old.common.values
           /\ new.system.values = old.system.values
           /\ ~g.ovf
           /\ new.generation = g.v
           /\ \A o \in V1Orders(nv) :
                 LET d == V1NvramSerialize(nv, o)
                 IN /\ d.tag = "Ok"
                    /\ V1NvramParse(d.bytes).tag = "Ok"
                    /\ V1NvramParse(d.bytes).nv.active = nv.active

\* C39: from prepare_for_write on, through every insert_variable and
\* remove_variable on the active bank, the slot of the bank that was active
\* before the call holds the Partition it held at the parse, and the image
\* that serialize returns has in that bank the generation and the variables
\* of that Partition.
C39_V1PreviousInMemory ==
    /\ pc \in {"prepared", "write", "done"} =>
          nv.partitions[pre.nv.active + 1] = V1ActivePart(pre.nv)
    /\ pc = "write" =>
          LET r == V1PartitionParse(V1BankOf(pre.data, pre.nv.active))
              old == V1ActivePart(pre.nv)
          IN /\ r.tag = "Ok"
             /\ r.p.generation = old.generation
             /\ r.p.common.values = old.common.values
             /\ r.p.system.values = old.system.values

C39_Witness ==
    /\ pc = "write"
    /\ muts >= 2
    /\ V1ActivePart(nv).common.values # V1ActivePart(pre.nv).common.values
    /\ V1ActivePart(nv).system.values # V1ActivePart(pre.nv).system.values
    /\ V1ActivePart(pre.nv).common.values # <<>>
    /\ nv.partitions[pre.nv.active + 1] = V1ActivePart(pre.nv)
    /\ V1PartitionParse(V1BankOf(pre.data, pre.nv.active)).tag = "Ok"
    /\ V1PartitionParse(V1BankOf(pre.data, pre.nv.active)).p.common.values
         = V1ActivePart(pre.nv).common.values

\* C16: Nvram::parse of a v1v2 image: when both banks parse, the banks are
\* kept as parsed and active is the one with the greater generation, index 1
\* on a tie; when exactly one parses, both slots hold that bank and active is
\* 1; when neither parses, the result is ParseError.
C16_V1ContainerParse ==
    last.op = "parse" =>
        LET r1 == V1PartitionParse(V1BankOf(medium, 0))
            r2 == V1PartitionParse(V1BankOf(medium, 1))
        IN /\ (r1.tag = "Ok" /\ r2.tag = "Ok") =>
                  /\ last.res = "Ok"
                  /\ nv.partitions = <<r1.p, r2.p>>
                  /\ nv.active = (IF U32Gt(r1.p.generation, r2.p.generation) THEN 0 ELSE 1)
           /\ (r1.tag = "Ok" /\ r2.tag # "Ok") =>
                  last.res = "Ok" /\ nv.partitions = <<r1.p, r1.p>> /\ nv.active = 1
           /\ (r1.tag # "Ok" /\ r2.tag = "Ok") =>
                  last.res = "Ok" /\ nv.partitions = <<r2.p, r2.p>> /\ nv.active = 1
           /\ (r1.tag # "Ok" /\ r2.tag # "Ok") => last.res = "ParseError"

\* C19: for an image both of whose banks parse, Nvram::serialize of the
\* parsed Nvram returns the image, or an image that differs from it only in
\* the order of the records inside a section: the image is what serialize
\* returns for one of the orders in which the HashMaps may yield their keys.
C19_V1RoundTrip ==
    (/\ last.op = "serialize"
     /\ V1PartitionParse(V1BankOf(medium, 0)).tag = "Ok"
     /\ V1PartitionParse(V1BankOf(medium, 1)).tag = "Ok")
    => /\ last.res = "Ok"
       /\ BLen(pend.data) = BLen(medium)
       /\ \E o \in V1Orders(nv) : V1NvramSerialize(nv, o).bytes = medium

\* C20: for an Nvram reached by parse and any sequence of insert_variable,
\* remove_variable and prepare_for_write, whenever serialize succeeds the
\* parse of its result selects the same active index and holds in each bank
\* the same (key, kind, value) variables of the common and system sections.
C20_V1SerializeThenParse ==
    pc \in {"ready", "prepared"} =>
        \A o \in V1Orders(nv) :
            LET d == V1NvramSerialize(nv, o)
            IN d.tag = "Ok" =>
                LET r == V1NvramParse(d.bytes)
                IN /\ r.tag = "Ok"
                   /\ r.nv.active = nv.active
                   /\ \A i \in 1..2 :
                         /\ r.nv.partitions[i].common.values = nv.partitions[i].common.values
                         /\ r.nv.partitions[i].system.values = nv.partitions[i].system.values

\* the reference decoding of the bytes s[i..]
RECURSIVE RefDecode(_, _)
RefDecode(s, i) ==
    IF i > Len(s) THEN <<>>
    ELSE IF s[i] # 255 THEN Cat(Fill(s[i], 1), RefDecode(s, i + 1))
    ELSE IF i = Len(s) THEN <<>>
    ELSE Cat(Fill(IF BitAnd(s[i + 1], 128) = 0 THEN 0 ELSE 255, BitAnd(s[i + 1], 127)),
             RefDecode(s, i + 2))

\* C21: for every stored byte sequence, value() returns the reference
\* decoding: bytes other than 0xFF unchanged, 0xFF c replaced by (c & 0x7F)
\* bytes 0x00 (c & 0x80 = 0) or 0xFF, nothing more after a trailing 0xFF.
C21_EscapeDecoder ==
    last.op = "value" =>
        /\ last.res = "Ok"
        /\ last.out = RefDecode(Plain(nv.value), 1)

\* the bytes s[i..] without the escape pairs whose count is zero
RECURSIVE DropZeroPairs(_, _)
DropZeroPairs(s, i) ==
    IF i > Len(s) THEN <<>>
    ELSE IF s[i] # 255 THEN <<s[i]>> \o DropZeroPairs(s, i + 1)
    ELSE IF i = Len(s) THEN <<s[i]>>
    ELSE IF BitAnd(s[i + 1], 127) = 0 THEN DropZeroPairs(s, i + 2)
    ELSE <<s[i], s[i + 1]>> \o DropZeroPairs(s, i + 2)

\* C29: an escape pair 0xFF c with (c & 0x7F) = 0 contributes no byte and
\* decoding continues behind it: value() returns what it returns for the
\* stored bytes with those pairs taken out.
C29_ZeroCount ==
    (last.op = "value" /\ DropZeroPairs(Plain(nv.value), 1) # Plain(nv.value)) =>
        \A chk \in BOOLEAN :
            /\ last.res = "Ok"
            /\ UnescapeVal(DropZeroPairs(Plain(nv.value), 1), 1, chk)
                   = [tag |-> "Ok", out |-> last.out]

\* the section of kind typ of a v1v2 partition
V1SectionOf(p, typ) == IF typ = "Common" THEN p.common ELSE p.system

V1OtherType(typ) == IF typ = "Common" THEN "System" ELSE "Common"

\* C22: a step that inserts or removes a variable of kind typ leaves the
\* active index, the inactive bank, the active bank's header and generation
\* and its section of the other kind unchanged; in the section of kind typ
\* every other key keeps its variable, an insert leaves exactly the keys of
\* before plus the key, bound to the new value, and a remove leaves the keys
\* of before without the key.
C22_V1MutationScope ==
    [][muts' = muts + 1 =>
        LET a == nv.active + 1
            typ == last'.typ
            key == last'.key
            old == V1SectionOf(nv.partitions[a], typ)
            new == V1SectionOf(nv'.partitions[a], typ)
        IN /\ nv'.active = nv.active
           /\ nv'.partitions[3 - a] = nv.partitions[3 - a]
           /\ nv'.partitions[a].header = nv.partitions[a].header
           /\ nv'.partitions[a].generation = nv.partitions[a].generation
           /\ V1SectionOf(nv'.partitions[a], V1OtherType(typ))
                = V1SectionOf(nv.partitions[a], V1OtherType(typ))
           /\ new.header = old.header
           /\ \A k \in (DOMAIN old.values) \ {key} :
                 k \in DOMAIN new.values /\ new.values[k] = old.values[k]
           /\ last'.op = "insert" =>
                 /\ DOMAIN new.values = (DOMAIN old.values) \cup {key}
                 /\ new.values[key] = V1Variable(key, last'.value, typ)
           /\ last'.op = "remove" =>
                 DOMAIN new.values = (DOMAIN old.values) \ {key}
    ]_vars

\* an insert has replaced the value of a key that its section already held,
\* while the other section holds a variable too
C22_Witness ==
    /\ last.op = "insert"
    /\ last.key \in DOMAIN V1SectionOf(last.before, last.typ).values
    /\ V1SectionOf(last.before, last.typ).values[last.key].value # last.value
    /\ DOMAIN V1SectionOf(last.before, V1OtherType(last.typ)).values # {}
    /\ V1SectionOf(V1ActivePart(nv), last.typ).values[last.key].value = last.value

\* 16 + the sum over the variables of (key length + 1 + value length + 1)
RECURSIVE SectionNeed(_, _)
SectionNeed(values, K) ==
    IF K = {} THEN 16
    ELSE LET k == CHOOSE x \in K : TRUE
         IN BLen(values[k].key) + 1 + BLen(values[k].value) + 1
            + SectionNeed(values, K \ {k})

\* C23: Section::serialize returns SectionTooBig exactly when 16 + the sum
\* of (key length + 1 + value length + 1) exceeds header.size * 16;
\* otherwise it returns Ok with exactly header.size * 16 bytes, every byte
\* behind the header and the records being zero.
C23_SectionCapacity ==
    (pc = "serialized" /\ "values" \in DOMAIN nv) =>
        LET need == SectionNeed(nv.values, DOMAIN nv.values)
            size == nv.header.size * 16
        IN /\ last.res = "SectionTooBig" <=> need > size
           /\ last.res # "SectionTooBig" =>
                 /\ last.res = "Ok"
                 /\ BLen(pend.data) = size
                 /\ BDrop(pend.data, need) = Fill(0, size - need)

\* a section one byte over its size has been refused
C23_Witness ==
    /\ pc = "serialized"
    /\ "values" \in DOMAIN nv
    /\ SectionNeed(nv.values, DOMAIN nv.values) = nv.header.size * 16 + 1
    /\ last.res = "SectionTooBig"

\* C24: a successful serialize of a parsed Nvram returns exactly 0x20000
\* bytes, the serialization of partitions[0] standing at offset 0 and that of
\* partitions[1] at offset 0x10000.
C24_V1ImageLayout ==
    (last.op = "serialize" /\ last.res = "Ok") =>
        /\ BLen(pend.data) = 131072
        /\ \E o \in V1Orders(nv) :
              LET b0 == V1PartitionSerialize(nv.partitions[1], o[1], o[2]).bytes
                  b1 == V1PartitionSerialize(nv.partitions[2], o[3], o[4]).bytes
              IN /\ BTake(pend.data, BLen(b0)) = b0
                 /\ BSlice(pend.data, 65536, 65536 + BLen(b1)) = b1

\* the variables Section::parse yields for the section at offset at of a
\* bank, and those that lie inside the section's declared size (the
\* boundary counting as the end of the last record)
V1SectionParsed(bank, at) == SectionParse(BDrop(bank, at)).sec

V1SectionInside(bank, at) ==
    SectionParse(Cat(BSlice(bank, at, at + SectionSizeBytes(V1SectionParsed(bank, at))),
                     Fill(0, 1))).sec

\* C30: in every bank that parses, each of the two sections holds exactly
\* the variables whose records lie inside header.size * 16 bytes from the
\* section's start.
C30_V1SectionBoundary ==
    (last.op = "parse" /\ last.res = "Ok") =>
        \A i \in 0..1 :
            V1PartitionParse(V1BankOf(medium, i)).tag = "Ok" =>
                LET bank == V1BankOf(medium, i)
                    at2 == 32 + SectionSizeBytes(V1SectionParsed(bank, 32))
                IN /\ V1SectionParsed(bank, 32).values = V1SectionInside(bank, 32).values
                   /\ V1SectionParsed(bank, at2).values = V1SectionInside(bank, at2).values

\* C9: after insert_variable(key, value, kind) the lookup of the key
\* returns a variable whose value() is value.
C9_V1InsertThenGet ==
    (last.op = "insert" /\ last.res = "Ok") =>
        \A chk \in Builds :
            LET g == V1GetVariable(V1ActivePart(nv), last.key)
            IN g.some /\ V1VariableValue(g.var, chk) = [tag |-> "Ok", out |-> last.value]

\* ======================================================================
\* Properties of nvram_parse and of the v3 parser
\* ======================================================================

\* the image starts with the v3 signature and its version byte is 1
LooksV3(m) ==
    /\ BLen(m) >= STORE_HEADER_SIZE
    /\ BTake(m, 4) = VARIABLE_STORE_SIGNATURE
    /\ BAt(m, 14) = VARIABLE_STORE_VERSION

\* the first 16 bytes of the image are a valid CHRP header named "nvram"
LooksV1V2(m) ==
    /\ BLen(m) >= 16
    /\ CHRPHeaderParse(Plain(BTake(m, 16))).tag = "Ok"
    /\ CHRPHeaderParse(Plain(BTake(m, 16))).h.name = NameNvram

\* C25: nvram_parse returns the v3 implementation for an image that starts
\* with "3VVN" and has version byte 1, the v1v2 implementation for an image
\* whose first 16 bytes are a valid CHRP header named "nvram", and
\* ParseError for every other image.
C25_AutoDetect ==
    last.op = "nvram_parse" =>
        /\ LooksV3(medium) => (last.res = "Ok" /\ last.impl = "v3")
        /\ LooksV1V2(medium) => (last.res = "Ok" /\ last.impl = "v1v2")
        /\ (~LooksV3(medium) /\ ~LooksV1V2(medium)) => last.res = "ParseError"

\* C27: v3 Partition::parse ends with Valid, Empty or ParseError on every
\* 0x10000-byte window of the image, in every build.
C27_V3ParseNeverAborts ==
    last.op = "nvram_parse" =>
        \A i \in 0..(Min(BLen(medium) \div PARTITION_SIZE, MAX_PARTITIONS) - 1) :
            \A chk \in BOOLEAN :
                PartitionParse(BSlice(medium, i * PARTITION_SIZE, (i + 1) * PARTITION_SIZE),
                               chk).tag \in {"Ok", "Empty", "ParseError"}

\* C28: v3 Nvram::parse considers min(len / 0x10000, 16) banks: its result
\* on an image is its result on the first 16 banks of the image, and a
\* parsed Nvram has partition_count = min(len / 0x10000, 16).
C28_BankCountCap ==
    last.op = "nvram_parse" =>
        \A chk \in BOOLEAN :
            LET r == NvramParse(medium, chk)
            IN /\ r = NvramParse(BTake(medium, Min(BLen(medium), MAX_PARTITIONS * PARTITION_SIZE)),
                                 chk)
               /\ r.tag = "Ok" =>
                     r.nv.partition_count
                       = Min(BLen(medium) \div PARTITION_SIZE, MAX_PARTITIONS)

\* ======================================================================
\* Properties of the v3 store
\* ======================================================================

\* the live (key, kind, value) records of a partition
Live(p) ==
    {<<p.values[i].key, VarTyp(p.values[i]), p.values[i].value>> :
        i \in {j \in 1..Len(p.values) : p.values[j].header.state = VAR_ADDED}}

\* the records of a log in state VAR_ADDED, in log order
Added(values) == SelectSeq(values, LAMBDA v : v.header.state = VAR_ADDED)

\* the active bank when the last apply was called
PreActive == ActiveSlot(pre.nv).p

QuotasMet(p) ==
    /\ ~IntGtU32(SystemUsed(p), p.header.system_size)
    /\ ~IntGtU32(CommonUsed(p), p.header.common_size)

\* the last call was an apply, on a Valid active bank within its quotas
ApplyCalled == last.op = "apply" /\ ActiveSlot(pre.nv).tag = "Valid" /\ QuotasMet(PreActive)
InPlaceCase == ApplyCalled /\ TotalUsed(PreActive) <= 65536
RotationCase == ApplyCalled /\ TotalUsed(PreActive) > 65536

\* the destination bank of a rotation by the last apply
Dest == (pre.nv.active + 1) % pre.nv.partition_count

\* the erase_if_needed calls of the last apply
Erases == SelectSeq(calls, LAMBDA c : c.call = "erase_if_needed")

\* bank i of a medium
Bank(m, i) == BSlice(m, i * 65536, (i + 1) * 65536)

\* C1: when apply is interrupted by a power loss, after any prefix of its
\* effects on the medium, parsing the medium succeeds and the live records of
\* the bank it selects are exactly those of the medium's active bank before
\* the apply or exactly those of the in-memory active bank being written.
C1_PowerLossSafe ==
    pc = "recover" =>
        \A chk \in Builds :
            LET r == NvramParse(medium, chk)
                old == NvramParse(pre.medium, chk)
            IN /\ r.tag = "Ok"
               /\ ActiveSlot(r.nv).tag = "Valid"
               /\ \/ Live(ActiveSlot(r.nv).p) = Live(ActiveSlot(old.nv).p)
                  \/ Live(ActiveSlot(r.nv).p) = Live(ActiveSlot(pre.post).p)

\* C3: after a successful apply to the flash-like writer, in every round,
\* parsing the medium selects the active index of the in-memory Nvram, and
\* that bank's generation and record log equal the in-memory active bank's.
C3_ReparseAgrees ==
    (pc = "ready" /\ last.op = "apply" /\ last.res = "Ok" /\ writer = "test")
    => \A chk \in Builds :
          LET r == NvramParse(medium, chk)
          IN /\ r.tag = "Ok"
             /\ r.nv.active = nv.active
             /\ ActiveSlot(r.nv).tag = "Valid"
             /\ ActiveSlot(r.nv).p.header.generation = ActiveSlot(nv).p.header.generation
             /\ ActiveSlot(r.nv).p.values = ActiveSlot(nv).p.values

\* C4: in the in-place case apply calls no erase_if_needed, its write_all
\* goes to offset active * 0x10000, and the active index and the active
\* bank's generation are what they were.
C4_InPlaceFrame ==
    InPlaceCase =>
        /\ Erases = <<>>
        /\ \A i \in 1..Len(calls) : calls[i].offset = pre.nv.active * 65536
        /\ last.res \in {"Pending", "Ok"} =>
               Len(calls) = 1 /\ calls[1].call = "write_all"
        /\ nv.active = pre.nv.active
        /\ ActiveSlot(nv).tag = "Valid"
        /\ ActiveSlot(nv).p.header.generation = PreActive.header.generation

C4_Witness ==
    /\ InPlaceCase
    /\ last.res = "Ok"
    /\ pre.nv.active = 1
    /\ calls = <<[call |-> "write_all", offset |-> 65536, size |-> 65536]>>
    /\ Len(ActiveSlot(nv).p.values) = 3
    /\ medium # pre.medium

\* C5: in the rotation case the active index becomes (old active + 1) mod N,
\* the new active bank holds exactly the VAR_ADDED records of the old one,
\* and its generation is the old generation + 1.
C5_Rotation ==
    (RotationCase /\ last.res \in {"Pending", "Ok", "SectionTooBig"}) =>
        /\ nv.active = Dest
        /\ ActiveSlot(nv).tag = "Valid"
        /\ ActiveSlot(nv).p.values = Added(PreActive.values)
        /\ LET g == U32Add(PreActive.header.generation, U32FromInt(1))
           IN ~g.ovf /\ ActiveSlot(nv).p.header.generation = g.v

\* C26: right after a rotating apply the active bank's generation is not
\* below the generation of the bank that was active before, and is strictly
\* greater than the generation of every other Valid bank, so that a reparse
\* elects it.
C26_GenerationMonotone ==
    (RotationCase /\ last.res \in {"Pending", "Ok"}) =>
        /\ ActiveSlot(nv).tag = "Valid"
        /\ ~U32Gt(PreActive.header.generation, ActiveSlot(nv).p.header.generation)
        /\ \A i \in 1..nv.partition_count :
              (i # nv.active + 1 /\ nv.partitions[i].tag = "Valid") =>
                  U32Gt(ActiveSlot(nv).p.header.generation,
                        nv.partitions[i].p.header.generation)

\* C37: once parse has succeeded, through every insert_variable,
\* remove_variable and apply, returned or failed, active is below the bank
\* count and partitions[active] is a Valid slot.
C37_ActiveSlotValid ==
    nv # NoNv => (nv.active < nv.partition_count /\ ActiveSlot(nv).tag = "Valid")

\* C36: across a rotating apply, get_variable(key, kind) on the active bank
\* returns the same record before and after for every key and kind, the new
\* active bank holds the live records of the old one in their log order, and
\* its store header equals the old one in every field but generation.
C36_RotationLiveView ==
    (RotationCase /\ last.res \in {"Pending", "Ok", "SectionTooBig"}) =>
        LET b == PreActive
            a == ActiveSlot(nv).p
        IN /\ ActiveSlot(nv).tag = "Valid"
           /\ \A k \in Keys \cup {b.values[i].key : i \in 1..Len(b.values)} :
                 \A t \in Types : GetVariable(a, k, t) = GetVariable(b, k, t)
           /\ a.values = Added(b.values)
           /\ [a.header EXCEPT !.generation = b.header.generation] = b.header

C36_Witness ==
    /\ RotationCase
    /\ last.res = "Ok"
    /\ nv.active # pre.nv.active
    /\ Len(ActiveSlot(nv).p.values) >= 2
    /\ Len(ActiveSlot(nv).p.values) < Len(PreActive.values)
    /\ \E k \in Keys : \E t \in Types :
          /\ GetVariable(PreActive, k, t).some
          /\ GetVariable(ActiveSlot(nv).p, k, t) = GetVariable(PreActive, k, t)
    /\ ActiveSlot(nv).p.header.generation # PreActive.header.generation

\* the positions of the write_all calls of the last apply
Writes == {i \in 1..Len(calls) : calls[i].call = "write_all"}

C32_CapacityErrorNoEffect ==
    (last.op = "apply" /\ last.res = "SectionTooBig") =>
        /\ calls = <<>>
        /\ nv = pre.nv
        /\ medium = pre.medium

C7_PreviousBankKept ==
    (RotationCase /\ last.res = "Ok") =>
        /\ \A i \in 1..Len(calls) :
              \/ calls[i].offset + calls[i].size <= pre.nv.active * 65536
              \/ calls[i].offset >= (pre.nv.active + 1) * 65536
        /\ Bank(medium, pre.nv.active) = Bank(pre.medium, pre.nv.active)
        /\ \A chk \in Builds :
              LET now == PartitionParse(Bank(medium, pre.nv.active), chk)
                  was == PartitionParse(Bank(pre.medium, pre.nv.active), chk)
              IN now.tag = "Ok" /\ was.tag = "Ok" /\ Live(now.p) = Live(was.p)

\* C8: after insert_variable(key, value, kind), get_variable(key, kind)
\* returns a variable whose value() is value, whatever the log held.
C8_InsertThenGet ==
    (last.op = "insert" /\ last.res = "Ok") =>
        LET g == GetVariable(ActiveSlot(nv).p, last.key, last.typ)
        IN g.some /\ VariableValue(g.var) = last.value

C8_Witness ==
    /\ last.op = "insert"
    /\ last.res = "Ok"
    /\ \E i \in 1..Len(last.before.values) :
          /\ last.before.values[i].key = last.key
          /\ VarTyp(last.before.values[i]) # last.typ
          /\ last.before.values[i].header.state = VAR_ADDED
    /\ \E i \in EntriesAdded(last.before, last.key, last.typ) :
          last.before.values[i].value # last.value
    /\ GetVariable(ActiveSlot(nv).p, last.key, last.typ).var.value = last.value

\* C10: after insert_variable(key, v1, kind) and then
\* insert_variable(key, v2, kind), get_variable(key, kind) returns v2 and
\* exactly one record of that key and kind has state VAR_ADDED.
C10_Overwrite ==
    (/\ last.op = "insert" /\ last.res = "Ok"
     /\ last.prev.op = "insert" /\ last.prev.key = last.key /\ last.prev.typ = last.typ)
    => LET g == GetVariable(ActiveSlot(nv).p, last.key, last.typ)
       IN /\ g.some
          /\ VariableValue(g.var) = last.value
          /\ Cardinality(EntriesAdded(ActiveSlot(nv).p, last.key, last.typ)) = 1

C10_Witness ==
    /\ last.op = "insert"
    /\ last.res = "Ok"
    /\ last.prev.op = "insert"
    /\ last.prev.key = last.key
    /\ last.prev.typ = last.typ
    /\ last.prev.value # last.value
    /\ Len(ActiveSlot(nv).p.values) >= 3
    /\ VariableValue(GetVariable(ActiveSlot(nv).p, last.key, last.typ).var) = last.value
    /\ Cardinality(EntriesAdded(ActiveSlot(nv).p, last.key, last.typ)) = 1

\* C11: after insert_variable(key, _, kind) or remove_variable(key, kind),
\* every record that had this key, this kind and state VAR_ADDED before the
\* call is still at its position in the log, unchanged but for its state,
\* which is 0x7C.
C11_Tombstoned ==
    (last.op \in {"insert", "remove"} /\ last.res = "Ok") =>
        \A i \in EntriesAdded(last.before, last.key, last.typ) :
            /\ i <= Len(ActiveSlot(nv).p.values)
            /\ ActiveSlot(nv).p.values[i] =
                   [last.before.values[i] EXCEPT !.header.state = 124]

C11_Witness ==
    /\ last.op = "remove"
    /\ last.res = "Ok"
    /\ Cardinality(EntriesAdded(last.before, last.key, last.typ)) = 2
    /\ \E i \in 1..Len(last.before.values) :
          /\ i \notin EntriesAdded(last.before, last.key, last.typ)
          /\ last.before.values[i].header.state = VAR_ADDED
    /\ \A i \in EntriesAdded(last.before, last.key, last.typ) :
          ActiveSlot(nv).p.values[i].header.state = 124

\* a log with at most one VAR_ADDED record for every key and kind
OneLivePerName(p) ==
    \A i, j \in 1..Len(p.values) :
        (/\ p.values[i].header.state = VAR_ADDED
         /\ p.values[j].header.state = VAR_ADDED
         /\ p.values[i].key = p.values[j].key
         /\ VarTyp(p.values[i]) = VarTyp(p.values[j])) => i = j

C34_MutationFrame ==
    [][(muts' = muts + 1 /\ last'.res = "Ok") =>
          LET b == ActiveSlot(nv).p
              a == ActiveSlot(nv').p
              n == Len(b.values)
          IN /\ Len(a.values) = n + (IF last'.op = "insert" THEN 1 ELSE 0)
             /\ \A i \in 1..n :
                   IF i \in EntriesAdded(b, last'.key, last'.typ)
                   THEN [a.values[i] EXCEPT !.header.state = VAR_ADDED] = b.values[i]
                   ELSE a.values[i] = b.values[i]
             /\ last'.op = "insert" =>
                   /\ a.values[n + 1].key = last'.key
                   /\ a.values[n + 1].value = last'.value
                   /\ VarTyp(a.values[n + 1]) = last'.typ
             /\ a.header = b.header
             /\ nv'.active = nv.active
             /\ \A j \in 1..Len(nv.partitions) :
                   j # nv.active + 1 => nv'.partitions[j] = nv.partitions[j]
             /\ Len(nv'.partitions) = Len(nv.partitions)
             /\ medium' = medium]_vars

C34_Witness ==
    /\ last.op \in {"insert", "remove"}
    /\ last.res = "Ok"
    /\ EntriesAdded(last.before, last.key, last.typ) # {}
    /\ \E i \in 1..Len(last.before.values) :
          /\ last.before.values[i].header.state = VAR_ADDED
          /\ VarTyp(last.before.values[i]) # last.typ
          /\ ActiveSlot(nv).p.values[i] = last.before.values[i]
    /\ \E i \in 1..Len(last.before.values) :
          /\ last.before.values[i].header.state # VAR_ADDED
          /\ VarTyp(last.before.values[i]) = last.typ
          /\ ActiveSlot(nv).p.values[i] = last.before.values[i]
    /\ \E j \in 1..Len(nv.partitions) : j # nv.active + 1 /\ nv.partitions[j].tag = "Valid"

\* C35: after remove_variable(key, kind), get_variable(key, kind) returns
\* None and get_variable(key, other kind) returns what it returned before;
\* remove_variable over a bank with no live record of the key and kind, and
\* so a second remove_variable of the same key and kind, changes nothing.
C35_RemoveThenGet ==
    (last.op = "remove" /\ last.res = "Ok") =>
        LET p == ActiveSlot(nv).p
        IN /\ ~GetVariable(p, last.key, last.typ).some
           /\ \A t \in Types \ {last.typ} :
                  GetVariable(p, last.key, t) = GetVariable(last.before, last.key, t)
           /\ RemoveVariable(p, last.key, last.typ) = p
           /\ EntriesAdded(last.before, last.key, last.typ) = {} => p = last.before
           /\ (/\ last.prev.op = "remove"
               /\ last.prev.key = last.key
               /\ last.prev.typ = last.typ) => p = last.before

C35_Witness ==
    /\ last.op = "remove"
    /\ last.res = "Ok"
    /\ GetVariable(last.before, last.key, last.typ).some
    /\ ~GetVariable(ActiveSlot(nv).p, last.key, last.typ).some
    /\ \E t \in Types \ {last.typ} : GetVariable(ActiveSlot(nv).p, last.key, t).some

\* a second remove_variable of the same key and kind
C35_WitnessTwice ==
    /\ last.op = "remove"
    /\ last.res = "Ok"
    /\ last.prev.op = "remove"
    /\ last.prev.key = last.key
    /\ last.prev.typ = last.typ
    /\ \E i \in 1..Len(last.before.values) :
          /\ last.before.values[i].key = last.key
          /\ VarTyp(last.before.values[i]) = last.typ
          /\ last.before.values[i].header.state = 124
    /\ ActiveSlot(nv).p = last.before

\* the summed size 36 + name_size + data_size of the records of a log that
\* have state 0x7F and the GUID of the given kind
RECURSIVE LiveSize(_, _)
LiveSize(values, typ) ==
    IF values = <<>> THEN 0
    ELSE LiveSize(Tail(values), typ)
         + (IF /\ values[1].header.state = 127
               /\ values[1].header.guid = (IF typ = "System" THEN APPLE_SYSTEM_VARIABLE_GUID
                                           ELSE APPLE_COMMON_VARIABLE_GUID)
            THEN 36 + U32Val(values[1].header.name_size) + U32Val(values[1].header.data_size)
            ELSE 0)

\* C12: apply returns SectionTooBig, without a call of the writer, whenever
\* the live System records of the active bank sum to more than system_size or
\* the live Common records to more than common_size; tombstoned records do
\* not count: when the live records are within both quotas and fit a bank
\* together with the store header, apply does not return SectionTooBig.
C12_Quotas ==
    (last.op = "apply" /\ ActiveSlot(pre.nv).tag = "Valid") =>
        LET sys == LiveSize(PreActive.values, "System")
            com == LiveSize(PreActive.values, "Common")
        IN /\ (sys > U32Val(PreActive.header.system_size)
                \/ com > U32Val(PreActive.header.common_size))
               => (last.res = "SectionTooBig" /\ calls = <<>> /\ nv = pre.nv)
           /\ (/\ sys <= U32Val(PreActive.header.system_size)
               /\ com <= U32Val(PreActive.header.common_size)
               /\ 24 + sys + com <= 65536)
               => last.res # "SectionTooBig"

C12_Witness ==
    /\ last.op = "apply"
    /\ last.res = "SectionTooBig"
    /\ LiveSize(PreActive.values, "Common") > U32Val(PreActive.header.common_size)
    /\ LiveSize(PreActive.values, "System") <= U32Val(PreActive.header.system_size)
    /\ \E i \in 1..Len(PreActive.values) : PreActive.values[i].header.state = 124
    /\ medium = pre.medium

\* C13: when apply failed with ApplyError because write_all failed, the
\* in-memory active bank still has the live records it had when apply was
\* called; apply called again reaches write_all and returns Ok, and the
\* medium then parses to an active bank with the live records of the
\* in-memory active bank.
C13_RetryAfterIoFailure ==
    /\ (pc = "failed" /\ last.op = "apply" /\ last.res = "ApplyError") =>
           /\ ActiveSlot(nv).tag = "Valid"
           /\ Live(ActiveSlot(nv).p) = Live(PreActive)
    /\ pc # "retryfailed"
    /\ pc = "retried" =>
           /\ Live(ActiveSlot(nv).p) = Live(PreActive)
           /\ \A chk \in Builds :
                 LET r == NvramParse(medium, chk)
                 IN /\ r.tag = "Ok"
                    /\ ActiveSlot(r.nv).tag = "Valid"
                    /\ Live(ActiveSlot(r.nv).p) = Live(ActiveSlot(nv).p)

\* C14: every write_all issued by apply has the offset k * 0x10000 of the
\* bank k < N that is active when apply returns, and the bytes it writes lie
\* inside that bank's 0x10000 bytes.
C14_WritePlacement ==
    (last.op = "apply" /\ last.res \in {"Pending", "Ok"}) =>
        \A i \in 1..Len(calls) :
            calls[i].call = "write_all" =>
                /\ nv.active < nv.partition_count
                /\ calls[i].offset = nv.active * 65536
                /\ calls[i].offset + calls[i].size <= (nv.active + 1) * 65536

\* the result of Partition::parse on bank i of the medium
BankParse(i, chk) == PartitionParse(Bank(medium, i), chk)

\* C17: Nvram::parse succeeds if and only if at least one bank is Valid, and
\* then active is the lowest index among the Valid banks of maximal
\* generation.
C17_ContainerParse ==
    last.op = "parse" =>
        \A chk \in Builds :
            LET N == BLen(medium) \div 65536
                valid == {i \in 0..(N - 1) : BankParse(i, chk).tag = "Ok"}
                gen(i) == BankParse(i, chk).p.header.generation
            IN /\ last.res = "Ok" <=> valid # {}
               /\ last.res = "Ok" =>
                      /\ nv.active \in valid
                      /\ \A j \in valid : ~U32Gt(gen(j), gen(nv.active))
                      /\ \A j \in valid : j < nv.active => gen(j) # gen(nv.active)

\* the summed header.size of the Valid slots from slot i on
RECURSIVE ValidSizes(_, _)
ValidSizes(n, i) ==
    IF i > n.partition_count THEN 0
    ELSE (IF n.partitions[i].tag = "Valid" THEN U32Val(n.partitions[i].p.header.size) ELSE 0)
         + ValidSizes(n, i + 1)

\* the last apply panicked in clone_active, before it serialized a bank
ClonePanicked ==
    /\ RotationCase
    /\ last.res = "Panic"
    /\ U32Add(PreActive.header.generation, U32FromInt(1)).ovf

\* C38: every run of Partition::serialize passes its assertion
\* v.len() == total_used() and emits no more than header.size bytes, so the
\* bank it emits is header.size bytes long: Nvram::serialize returns, with
\* header.size bytes for each Valid bank, and an apply that reaches the
\* serialization of its bank hands write_all header.size bytes.
C38_SerializeAssertion ==
    /\ last.op = "serialize" =>
          /\ last.res = "Ok"
          /\ BLen(last.data) = ValidSizes(nv, 1)
    /\ (ApplyCalled /\ ~ClonePanicked) =>
          /\ last.res \notin {"Panic", "Abort"}
          /\ last.res = "Pending" =>
                calls[Len(calls)].size = U32Val(ActiveSlot(nv).p.header.size)

\* C18: Nvram::serialize of a parsed v3 image returns the image: as many
\* bytes as the medium holds, and the same bytes.
C18_RoundTrip ==
    last.op = "serialize" =>
        /\ last.res = "Ok"
        /\ BLen(last.data) = BLen(medium)
        /\ last.data = medium
====
